---- MODULE Spec2Model ----
(***************************************************************************)
(* Model of the AI resume builder backend: the /pdf/export handler in its  *)
(* three variants (src/controllers/pdf.controller.js exportPdf, and the    *)
(* monolithic handlers of server.js and of the older server file), the     *)
(* education normalizer and the file name derivation.                      *)
(*                                                                         *)
(* Strings are sequences of one-character strings, so that trim, replace   *)
(* and substring are computed character by character.  A JavaScript value  *)
(* is a record [t, s]: t is its type tag, s the characters of a string     *)
(* (or the digits of a number).                                            *)
(***************************************************************************)
EXTENDS Integers, Sequences, FiniteSets, TLC

\* ------------------------------------------------------------------------
\* Bounds of the model
\* ------------------------------------------------------------------------
MaxEdu == 2          \* longest education sequence drawn as an input
MaxNameLen == 2      \* longest name drawn character by character
LongSlack == 2       \* long names run from StemCap - LongSlack to StemCap + LongSlack
MaxReq == 2          \* export requests, which may be in flight together
MaxPdfLen == 1       \* largest byte length page.pdf may return
MaxItems == 2        \* most entries in a list of the form (experience, ...)
MaxSkillChars == 3   \* longest skills string drawn from SkillChars
MaxSummaryLen == 3   \* longest gensummary drawn from SummaryChars
MaxHeaderLen == 3    \* longest Authorization header drawn from HeaderChars
MaxRetries == 3      \* largest retries argument given to generateWithRetry

\* ------------------------------------------------------------------------
\* JavaScript values
\* ------------------------------------------------------------------------
Undef == [t |-> "undefined", s |-> <<>>]
Null == [t |-> "null", s |-> <<>>]
StrV(s) == [t |-> "string", s |-> s]
NumV(s) == [t |-> "number", s |-> s]

\* JavaScript truthiness of a value: "", 0, null and undefined are falsy.
Truthy(v) ==
  \/ v.t = "string" /\ v.s # <<>>
  \/ v.t = "number" /\ v.s # <<"0">>
  \/ v.t = "object"

\* Characters String.prototype.trim removes.
WhiteSpace == {" ", "\t", "\n"}

RECURSIVE TrimStart(_)
TrimStart(s) ==
  IF s = <<>> THEN s
  ELSE IF Head(s) \in WhiteSpace THEN TrimStart(Tail(s)) ELSE s

RECURSIVE TrimEnd(_)
TrimEnd(s) ==
  IF s = <<>> THEN s
  ELSE IF s[Len(s)] \in WhiteSpace THEN TrimEnd(SubSeq(s, 1, Len(s) - 1)) ELSE s

Trim(s) == TrimEnd(TrimStart(s))

\* ------------------------------------------------------------------------
\* Education normalizer
\* ------------------------------------------------------------------------
Other == <<"O", "t", "h", "e", "r">>

\* e.eduTypeOther?.trim(): undefined for an absent or null field, the
\* trimmed text for a string, a TypeError for any other value.
OtherTrimThrows(e) == e.eduTypeOther.t \notin {"undefined", "null", "string"}

OtherTrimmed(e) ==
  IF e.eduTypeOther.t = "string" THEN Trim(e.eduTypeOther.s) ELSE <<>>

\* Reading e.eduType of a null entry raises a TypeError, and so does calling
\* trim on an eduTypeOther that is no string.
EntryThrows(e) ==
  \/ e.t = "null"
  \/ e.eduType = StrV(Other) /\ OtherTrimThrows(e)

\* The condition of the map callback.
IsOtherWithOverride(e) ==
  e.eduType = StrV(Other) /\ ~OtherTrimThrows(e) /\ OtherTrimmed(e) # <<>>

\* The map callback: out is the entry it returns, src the entry it was
\* given as the callback leaves it, threw whether it raised a TypeError.
NormalizeEntryMerging(e) ==
  IF e.eduTypeOther.t = "string" /\ OtherTrimmed(e) # <<>>
  THEN [threw |-> FALSE,
        out |-> [e EXCEPT !.eduType = StrV(e.eduType.s \o OtherTrimmed(e))],
        src |-> e]
  ELSE [threw |-> EntryThrows(e),
        out |-> e, src |-> e]

NormalizeEntryUntrimmed(e) ==
  IF EntryThrows(e)
  THEN [threw |-> TRUE, out |-> e, src |-> e]
  ELSE IF IsOtherWithOverride(e)
  THEN [threw |-> FALSE,
        out |-> [e EXCEPT !.eduType = e.eduTypeOther],
        src |-> e]
  ELSE [threw |-> FALSE, out |-> e, src |-> e]

NormalizeEntryInPlace(e) ==
  IF EntryThrows(e)
  THEN [threw |-> TRUE, out |-> e, src |-> e]
  ELSE IF IsOtherWithOverride(e)
  THEN [threw |-> FALSE,
        out |-> [e EXCEPT !.eduType = StrV(OtherTrimmed(e))],
        src |-> [e EXCEPT !.eduType = StrV(OtherTrimmed(e))]]
  ELSE [threw |-> FALSE, out |-> e, src |-> e]

NormalizeEntry(e) ==
  IF EntryThrows(e)
  THEN [threw |-> TRUE, out |-> e, src |-> e]
  ELSE IF IsOtherWithOverride(e)
  THEN [threw |-> FALSE,
        out |-> [e EXCEPT !.eduType = StrV(OtherTrimmed(e))],
        src |-> e]
  ELSE [threw |-> FALSE, out |-> e, src |-> e]

\* An education value is [t, items]: t = "undefined" (absent, the default
\* parameter [] applies), "array", or "null" / "string" (no usable map
\* method: the call raises a TypeError).
EduArray(items) == [t |-> "array", items |-> items]
EduAbsent == [t |-> "undefined", items |-> <<>>]
EduNull == [t |-> "null", items |-> <<>>]
EduString == [t |-> "string", items |-> <<>>]

\* normalizeEducationArray(education = []): out is the returned array, src
\* the argument after the call, threw whether the call raised.
normalizeEducationArray(education) ==
  IF education.t \in {"null", "string"}
  THEN [threw |-> TRUE, out |-> EduAbsent, src |-> education]
  ELSE LET items == education.items
           r == [i \in 1..Len(items) |-> NormalizeEntry(items[i])]
       IN [threw |-> \E i \in 1..Len(items) : r[i].threw,
           out |-> EduArray([i \in 1..Len(items) |-> r[i].out]),
           src |-> [education EXCEPT
                      !.items = [i \in 1..Len(items) |-> r[i].src]]]

\* ------------------------------------------------------------------------
\* File name derivation
\* ------------------------------------------------------------------------
Lower == {"a", "b", "c", "d", "e", "f", "g", "h", "i", "j", "k", "l", "m",
          "n", "o", "p", "q", "r", "s", "t", "u", "v", "w", "x", "y", "z"}
Upper == {"A", "B", "C", "D", "E", "F", "G", "H", "I", "J", "K", "L", "M",
          "N", "O", "P", "Q", "R", "S", "T", "U", "V", "W", "X", "Y", "Z"}
Digit == {"0", "1", "2", "3", "4", "5", "6", "7", "8", "9"}

\* The characters the class [a-zA-Z0-9_-] accepts.
SafeChars == Lower \cup Upper \cup Digit \cup {"_", "-"}

StemCap == 40
Resume == <<"r", "e", "s", "u", "m", "e">>
DotPdf == <<".", "p", "d", "f">>

\* .replace(/[^a-zA-Z0-9_-]/g, "_")
ReplaceUnsafeKeepingDots(s) ==
  [i \in 1..Len(s) |-> IF s[i] \in SafeChars \cup {"."} THEN s[i] ELSE "_"]

ReplaceUnsafe(s) ==
  [i \in 1..Len(s) |-> IF s[i] \in SafeChars THEN s[i] ELSE "_"]

\* .substring(0, StemCap)
Substring0(s, n) == SubSeq(s, 1, IF Len(s) < n THEN Len(s) ELSE n)

\* (form.name || "resume").replace(...).substring(0, 40) + ".pdf": a truthy
\* name that is no string has no replace method and raises a TypeError.
FileNameOf(name) ==
  IF Truthy(name) /\ name.t # "string"
  THEN [threw |-> TRUE, out |-> <<>>]
  ELSE LET base == IF Truthy(name) THEN name.s ELSE Resume
       IN [threw |-> FALSE,
           out |-> Substring0(ReplaceUnsafe(base), StemCap) \o DotPdf]

\* ------------------------------------------------------------------------
\* State
\* ------------------------------------------------------------------------
VARIABLES
  impl,          \* which /pdf/export handler the running server mounts
  reqs,          \* per export request: position in the handler, locals, response
  openBrowsers,  \* browser processes launched and not yet closed
  education,     \* the array handed to normalizeEducationArray
  education0,    \* that array as the client sent it
  saved,         \* education stored by savePortfolio
  exported,      \* form.education after exportPdf normalized the saved one
  nphase,        \* progress of the save / export round trip
  nameIn,        \* form.name handed to the file name derivation
  fileName,      \* the derived file name
  fphase,        \* whether the file name was derived
  markup,        \* a form and summary on their way through the markup assembly
  auth,          \* a portfolio request on its way through authMiddleware
  retry,         \* one call of generateWithRetry
  accounts,      \* the users collection and the registrations in flight
  portfolio      \* the portfolios collection, saves in flight, answers of GET

vars == <<impl, reqs, openBrowsers, education, education0,
          saved, exported, nphase, nameIn, fileName, fphase,
          markup, auth, retry, accounts, portfolio>>

exportVars == <<impl, reqs, openBrowsers>>
normVars == <<education, education0, saved, exported, nphase>>
fileVars == <<nameIn, fileName, fphase>>
dbVars == <<accounts, portfolio>>
restVars == <<markup, auth, retry, dbVars>>

NotRun == [ran |-> FALSE, threw |-> FALSE, out |-> EduAbsent]
NoFile == [threw |-> FALSE, out |-> <<>>]

NormOff ==
  /\ education = EduAbsent /\ education0 = EduAbsent
  /\ saved = NotRun /\ exported = NotRun /\ nphase = "off"

FileOff == nameIn = Undef /\ fileName = NoFile /\ fphase = "off"

\* ------------------------------------------------------------------------
\* Summary cleaning and markup assembly (as far as the handler's control
\* flow depends on them)
\* ------------------------------------------------------------------------
NotStar(c) == c # "*"

\* replace("*", "") in place of replace(/\*/g, ""): only the first star goes.
RECURSIVE DropFirstStar(_)
DropFirstStar(s) ==
  IF s = <<>> THEN <<>>
  ELSE IF Head(s) = "*" THEN Tail(s)
  ELSE <<Head(s)>> \o DropFirstStar(Tail(s))

cleanSummaryFirstStarOnly(gensummary) ==
  IF Truthy(gensummary) /\ gensummary.t # "string"
  THEN [threw |-> TRUE, out |-> <<>>]
  ELSE [threw |-> FALSE,
        out |-> DropFirstStar(IF Truthy(gensummary) THEN gensummary.s ELSE <<>>)]

\* (gensummary || "").replace(/\*/g, ""): a truthy gensummary that is no
\* string has no replace method.
cleanSummary(gensummary) ==
  IF Truthy(gensummary) /\ gensummary.t # "string"
  THEN [threw |-> TRUE, out |-> <<>>]
  ELSE [threw |-> FALSE,
        out |-> SelectSeq(IF Truthy(gensummary) THEN gensummary.s ELSE <<>>,
                          NotStar)]

ExpAbsent == [t |-> "undefined", items |-> <<>>]
ExpArray(items) == [t |-> "array", items |-> items]
ExpNumber == [t |-> "number", items |-> <<>>]

\* form.skills as the client sends it: an array of strings, one string,
\* absent, or some other value.
SkillsAbsent == [t |-> "undefined", items |-> <<>>, s |-> <<>>]
SkillsArray(items) == [t |-> "array", items |-> items, s |-> <<>>]
SkillsString(s) == [t |-> "string", items |-> <<>>, s |-> s]
SkillsNumber == [t |-> "number", items |-> <<>>, s |-> <<>>]

\* Array.prototype.join
RECURSIVE JoinWith(_, _)
JoinWith(pieces, sep) ==
  IF pieces = <<>> THEN <<>>
  ELSE IF Len(pieces) = 1 THEN pieces[1]
  ELSE pieces[1] \o sep \o JoinWith(Tail(pieces), sep)

\* String.prototype.split(c) for a separator of one character
RECURSIVE SplitAt(_, _)
SplitAt(s, c) ==
  IF \A k \in 1..Len(s) : s[k] # c
  THEN <<s>>
  ELSE LET k == CHOOSE k \in 1..Len(s) :
                  s[k] = c /\ \A j \in 1..(k - 1) : s[j] # c
       IN <<SubSeq(s, 1, k - 1)>> \o SplitAt(SubSeq(s, k + 1, Len(s)), c)

\* split(",")
SplitComma(s) == SplitAt(s, ",")

\* v && v.trim(), also v?.trim(), for a value that is a string or absent
NonBlank(v) == v.t = "string" /\ Trim(v.s) # <<>>

\* safe(v): v ? String(v) : ""
safe(v) == IF Truthy(v) THEN v.s ELSE <<>>

CommaSpace == <<",", " ">>
CommaSpaces == <<",", " ", " ", " ">>
NoEducationDetails == "No education details"

\* One block of the document body, in document order: its kind (which fixes
\* its heading), the entries rendered under the heading, the text of a
\* block that is one paragraph, and a placeholder paragraph when it has one.
Section(kind, items, text) ==
  [kind |-> kind, items |-> items, text |-> text, note |-> ""]
Placeholder(kind, note) ==
  [kind |-> kind, items |-> <<>>, text |-> <<>>, note |-> note]

\* One segment of the contact line of the header: the separator written in
\* front of it and its text.
Seg(field, sep, text) == [field |-> field, sep |-> sep, text |-> text]
\* ${safe(form.city)}, ${safe(form.state)}, ${safe(form.pincode)}
Location(form) ==
  <<Seg("city", "", safe(form.city)), Seg("state", ", ", safe(form.state)),
    Seg("pincode", ", ", safe(form.pincode))>>
\* ${v ? " | " + ... : ""}
Piped(field, v) == IF Truthy(v) THEN <<Seg(field, " | ", safe(v))>> ELSE <<>>
\* "| " + v: the string "| undefined" when v is absent
UndefinedText == <<"u", "n", "d", "e", "f", "i", "n", "e", "d">>
Glued(field, v) ==
  Seg(field, "| ", IF v.t = "undefined" THEN UndefinedText ELSE v.s)

PdfHeader(form) ==
  Section("header",
          Location(form) \o Piped("emailId", form.emailId)
            \o Piped("phoneNo", form.phoneNo) \o Piped("linkedIn", form.linkedIn),
          safe(form.name))
InlineHeader(form) ==
  Section("header",
          Location(form) \o Piped("emailId", form.emailId)
            \o Piped("phoneNo", form.phoneNo) \o Piped("linkedIn", form.linkedIn)
            \o Piped("portfolioLink", form.portfolioLink),
          safe(form.name))
OlderHeader(form) ==
  Section("header",
          <<Seg("emailId", "", safe(form.emailId)), Glued("phoneNo", form.phoneNo),
            Glued("linkedIn", form.linkedIn),
            Glued("portfolioLink", form.portfolioLink)>>,
          safe(form.name))

Block(block, entries, lead, text) ==
  [block |-> block, entries |-> entries, lead |-> lead, text |-> text]

\* --- buildResumeHtml (pdf.controller.js) ---
hasExperience(form) ==
  \E k \in 1..Len(form.experience.items) :
    LET e == form.experience.items[k]
    IN \/ Truthy(e.role) \/ Truthy(e.company)
       \/ Truthy(e.duration) \/ Truthy(e.activities)
hasProjects(form) ==
  \E k \in 1..Len(form.projects.items) :
    LET p == form.projects.items[k]
    IN Truthy(p.name) \/ Truthy(p.description) \/ Truthy(p.technologies)
hasCertificates(form) ==
  \E k \in 1..Len(form.certificates.items) :
    LET c == form.certificates.items[k]
    IN Truthy(c.title) \/ Truthy(c.issuedBy) \/ Truthy(c.issuedOn)
hasSkills(form) ==
  /\ form.skills.t = "array"
  /\ \E k \in 1..Len(form.skills.items) : NonBlank(form.skills.items[k])
hasLanguages(form) ==
  \E k \in 1..Len(form.languages.items) :
    NonBlank(form.languages.items[k].language)
hasAdditional(form) ==
  \/ hasLanguages(form)
  \/ NonBlank(form.nationality)
  \/ NonBlank(form.availabilityType)

PdfSummary(summary) ==
  IF summary # <<>> THEN <<Section("summary", <<>>, summary)>> ELSE <<>>
PdfExperience(form) ==
  IF hasExperience(form)
  THEN <<Section("experience",
                 SelectSeq(form.experience.items,
                           LAMBDA e : Truthy(e.role) \/ Truthy(e.company)),
                 <<>>)>>
  ELSE <<>>
\* String.prototype.startsWith
StartsWith(s, prefix) ==
  Len(s) >= Len(prefix) /\ SubSeq(s, 1, Len(prefix)) = prefix
Http == <<"h", "t", "t", "p">>
HttpsScheme == <<"h", "t", "t", "p", "s", ":", "/", "/">>

\* keyPoints.filter(k => k && k.trim()), as texts
Bullets(keyPoints) ==
  LET kept == SelectSeq(keyPoints.items, NonBlank)
  IN [k \in 1..Len(kept) |-> kept[k].s]

\* One project as a template shows it: whether the link, the description,
\* the <ul> and the "Tech Used" line are written, the href of the link and
\* the <li> texts; src is the entry it was made from.
ProjectRow(p, link, href, list, tech) ==
  [src |-> p, link |-> link, href |-> href,
   description |-> Truthy(p.description),
   list |-> list, bullets |-> Bullets(p.keyPoints), tech |-> tech]
\* One certificate: whether the credential link is written, and its href.
CertRow(c, credential, href) ==
  [src |-> c, credential |-> credential, href |-> href]

PdfProjectRow(p) ==
  ProjectRow(p, Truthy(p.link), safe(p.link),
             Bullets(p.keyPoints) # <<>>, Truthy(p.technologies))
PdfProjects(form) ==
  IF hasProjects(form)
  THEN LET shown == SelectSeq(form.projects.items, LAMBDA p : Truthy(p.name))
       IN <<Section("projects",
                    [k \in 1..Len(shown) |-> PdfProjectRow(shown[k])], <<>>)>>
  ELSE <<>>
\* One education entry as the template shows it: the institute and eduType.
EduRow(e) == [institute |-> safe(e.institute), eduType |-> safe(e.eduType)]
EduRows(form) ==
  [k \in 1..Len(form.education.items) |-> EduRow(form.education.items[k])]
PdfEducation(form) == <<Section("education", EduRows(form), <<>>)>>
PdfSkillPieces(form) ==
  LET kept == SelectSeq(form.skills.items, Truthy)
  IN [k \in 1..Len(kept) |-> kept[k].s]
PdfSkills(form) ==
  IF hasSkills(form)
  THEN <<Section("skills", PdfSkillPieces(form),
                 JoinWith(PdfSkillPieces(form), CommaSpace))>>
  ELSE <<>>
PdfCertificates(form) ==
  IF hasCertificates(form)
  THEN LET shown == SelectSeq(form.certificates.items, LAMBDA c : Truthy(c.title))
       IN <<Section("certificates",
                    [k \in 1..Len(shown) |-> CertRow(shown[k], FALSE, <<>>)],
                    <<>>)>>
  ELSE <<>>
PdfAdditional(form) ==
  IF hasAdditional(form)
  THEN <<Section("additional",
           (IF hasLanguages(form)
            THEN <<Block("languages",
                         SelectSeq(form.languages.items,
                                   LAMBDA l : Truthy(l.language)),
                         "", <<>>)>>
            ELSE <<>>)
           \o (IF Truthy(form.nationality)
               THEN <<Block("nationality", <<>>, "", safe(form.nationality))>>
               ELSE <<>>)
           \o (IF Truthy(form.availabilityType)
               THEN <<Block("availability", <<>>, "", safe(form.availabilityType))>>
               ELSE <<>>),
           <<>>)>>
  ELSE <<>>

\* buildResumeHtml: form.experience?.some(...) raises a TypeError when
\* experience is a truthy value without a some method.
buildResumeHtml(form, summary) ==
  IF form.experience.t \notin {"undefined", "array"}
  THEN [threw |-> TRUE, summary |-> summary, sections |-> <<>>]
  ELSE [threw |-> FALSE, summary |-> summary,
        sections |-> <<PdfHeader(form)>>
                     \o PdfSummary(summary)
                     \o PdfExperience(form)
                     \o PdfProjects(form)
                     \o PdfEducation(form)
                     \o PdfSkills(form)
                     \o PdfCertificates(form)
                     \o PdfAdditional(form)]

\* --- the template literal of server.js ---
validExp(form) ==
  SelectSeq(form.experience.items,
            LAMBDA exp : \/ NonBlank(exp.role) \/ NonBlank(exp.company)
                         \/ NonBlank(exp.duration) \/ NonBlank(exp.activities))
validProjects(form) ==
  SelectSeq(form.projects.items,
            LAMBDA p : \/ NonBlank(p.name) \/ NonBlank(p.description)
                       \/ NonBlank(p.link)
                       \/ SelectSeq(p.keyPoints.items, NonBlank) # <<>>
                       \/ NonBlank(p.technologies))
validCerts(form) ==
  SelectSeq(form.certificates.items,
            LAMBDA c : \/ NonBlank(c.title) \/ NonBlank(c.issuedBy)
                       \/ NonBlank(c.issuedOn) \/ NonBlank(c.credential))

\* let skills = []; an array keeps its non-blank entries, a string is split
\* at commas, trimmed and stripped of empty pieces.
InlineSkillPieces(form) ==
  IF form.skills.t = "array"
  THEN LET kept == SelectSeq(form.skills.items, NonBlank)
       IN [k \in 1..Len(kept) |-> kept[k].s]
  ELSE IF form.skills.t = "string"
  THEN LET pieces == SplitComma(form.skills.s)
           trimmed == [k \in 1..Len(pieces) |-> Trim(pieces[k])]
       IN SelectSeq(trimmed, LAMBDA s : s # <<>>)
  ELSE <<>>

InlineSummary(summary) == <<Section("summary", <<>>, summary)>>
InlineExperience(form) ==
  IF validExp(form) # <<>>
  THEN <<Section("experience", validExp(form), <<>>)>>
  ELSE <<>>
\* server.js: the link gets "https://" in front unless it starts with "http".
InlineProjectRow(p) ==
  ProjectRow(p, Truthy(p.link),
             IF StartsWith(safe(p.link), Http) THEN safe(p.link)
             ELSE HttpsScheme \o safe(p.link),
             Bullets(p.keyPoints) # <<>>, NonBlank(p.technologies))
\* part_000: p.link ? p.link : "https://" + p.link inside the p.link branch;
\* the <ul> whenever keyPoints has entries; p.technologies.length > 0.
OlderProjectRow(p) ==
  ProjectRow(p, Truthy(p.link), safe(p.link),
             p.keyPoints.items # <<>>, Truthy(p.technologies))
InlineProjects(form, older) ==
  IF validProjects(form) # <<>>
  THEN <<Section("projects",
                 [k \in 1..Len(validProjects(form)) |->
                    IF older THEN OlderProjectRow(validProjects(form)[k])
                    ELSE InlineProjectRow(validProjects(form)[k])],
                 <<>>)>>
  ELSE <<>>
InlineEducation(form) ==
  IF form.education.t = "array" /\ form.education.items # <<>>
  THEN <<Section("education", EduRows(form), <<>>)>>
  ELSE <<Placeholder("education", NoEducationDetails)>>
InlineSkills(form, sep) ==
  IF InlineSkillPieces(form) # <<>>
  THEN <<Section("skills", InlineSkillPieces(form),
                 JoinWith(InlineSkillPieces(form), sep))>>
  ELSE <<>>
\* server.js: href="${c.credential}"
InlineCertRow(c) == CertRow(c, NonBlank(c.credential), safe(c.credential))
\* part_000: "https://" in front unless it starts with "https://"
OlderCertRow(c) ==
  CertRow(c, Truthy(c.credential),
          IF StartsWith(safe(c.credential), HttpsScheme) THEN safe(c.credential)
          ELSE HttpsScheme \o safe(c.credential))
InlineCertificates(form, older) ==
  IF validCerts(form) # <<>>
  THEN <<Section("certificates",
                 [k \in 1..Len(validCerts(form)) |->
                    IF older THEN OlderCertRow(validCerts(form)[k])
                    ELSE InlineCertRow(validCerts(form)[k])],
                 <<>>)>>
  ELSE <<>>

NoticePeriod ==
  <<"N", "o", "t", "i", "c", "e", " ", "P", "e", "r", "i", "o", "d">>
AvailableFrom ==
  <<"A", "v", "a", "i", "l", "a", "b", "l", "e", " ", "F", "r", "o", "m">>

AvailabilityBlock(form) ==
  IF form.availabilityType = StrV(NoticePeriod) /\ Truthy(form.noticePeriod)
  THEN Block("availability", <<>>, "Notice Period for ", safe(form.noticePeriod))
  ELSE IF /\ form.availabilityType = StrV(AvailableFrom)
          /\ Truthy(form.availableFromDate)
  THEN Block("availability", <<>>, "Available from ", safe(form.availableFromDate))
  ELSE Block("availability", <<>>, "", safe(form.availabilityType))

InlineAdditional(form) ==
  IF \/ hasLanguages(form)
     \/ NonBlank(form.nationality)
     \/ NonBlank(form.availabilityType)
  THEN <<Section("additional",
           (IF hasLanguages(form)
            THEN <<Block("languages",
                         SelectSeq(form.languages.items,
                                   LAMBDA l : NonBlank(l.language)),
                         "", <<>>)>>
            ELSE <<>>)
           \o (IF NonBlank(form.nationality)
               THEN <<Block("nationality", <<>>, "", safe(form.nationality))>>
               ELSE <<>>)
           \o (IF NonBlank(form.availabilityType)
               THEN <<AvailabilityBlock(form)>>
               ELSE <<>>),
           <<>>)>>
  ELSE <<>>

\* The template literal of server.js:
\* (form.experience || []).filter(...) raises a TypeError when experience
\* is a truthy value without a filter method.
InlineHtml(form, summary) ==
  IF form.experience.t \notin {"undefined", "array"}
  THEN [threw |-> TRUE, summary |-> summary, sections |-> <<>>]
  ELSE [threw |-> FALSE, summary |-> summary,
        sections |-> <<InlineHeader(form)>>
                     \o InlineSummary(summary)
                     \o InlineExperience(form)
                     \o InlineProjects(form, FALSE)
                     \o InlineEducation(form)
                     \o InlineSkills(form, CommaSpace)
                     \o InlineCertificates(form, FALSE)
                     \o InlineAdditional(form)]

\* The template literal of the older monolith: other order, no additional
\* information, and p.technologies.length read on every listed project.
OlderInlineHtml(form, summary) ==
  IF \/ form.experience.t \notin {"undefined", "array"}
     \/ \E k \in 1..Len(validProjects(form)) :
          validProjects(form)[k].technologies.t = "undefined"
  THEN [threw |-> TRUE, summary |-> summary, sections |-> <<>>]
  ELSE [threw |-> FALSE, summary |-> summary,
        sections |-> <<OlderHeader(form)>>
                     \o InlineSummary(summary)
                     \o InlineEducation(form)
                     \o InlineSkills(form, CommaSpaces)
                     \o InlineExperience(form)
                     \o InlineProjects(form, TRUE)
                     \o InlineCertificates(form, TRUE)]

NoHtml == [threw |-> FALSE, summary |-> <<>>, sections |-> <<>>]

\* ------------------------------------------------------------------------
\* Requests and responses
\* ------------------------------------------------------------------------
Impls == {"exportPdf", "server", "part_000"}
Reqs == 1..MaxReq

ListAbsent == [t |-> "undefined", items |-> <<>>]
List(items) == [t |-> "array", items |-> items]

\* A value of kind k with no field set; an object's fields are filled in
\* with EXCEPT.
FormOfKind(k) ==
  [t |-> k, name |-> Undef, education |-> EduAbsent, experience |-> ExpAbsent,
   skills |-> SkillsAbsent, projects |-> ListAbsent,
   certificates |-> ListAbsent, languages |-> ListAbsent,
   nationality |-> Undef, availabilityType |-> Undef,
   noticePeriod |-> Undef, availableFromDate |-> Undef,
   city |-> Undef, state |-> Undef, pincode |-> Undef, emailId |-> Undef,
   phoneNo |-> Undef, linkedIn |-> Undef, portfolioLink |-> Undef]
FormObject(name, edu, exp) ==
  [FormOfKind("object") EXCEPT !.name = name, !.education = edu,
                               !.experience = exp]

\* !form
FormFalsy(form) == form.t \in {"undefined", "null", "zero"}

AdaLovelace == <<"A", "d", "a", " ", "L", "o", "v", "e", "l", "a", "c", "e">>
MScPadded == <<" ", "M", "S", "c", " ">>
MIT == <<"M", "I", "T">>
StarredSummary == <<"*", "H", "i", "*">>

OtherEntry ==
  [t |-> "object", eduType |-> StrV(Other), eduTypeOther |-> StrV(MScPadded),
   institute |-> StrV(MIT)]

Body(form, gensummary) ==
  [present |-> TRUE, form |-> form, gensummary |-> gensummary]

\* req.body when no body parser filled it in
NoBody == [present |-> FALSE, form |-> FormOfKind("undefined"), gensummary |-> Undef]

GoodForm == FormObject(StrV(AdaLovelace), EduArray(<<OtherEntry>>), ExpArray(<<>>))

Bodies ==
  { NoBody,
    Body(FormOfKind("undefined"), Undef),
    Body(FormOfKind("null"), StrV(StarredSummary)),
    Body(FormOfKind("zero"), Undef),
    Body(GoodForm, StrV(StarredSummary)),
    Body(FormObject(NumV(<<"7">>), EduArray(<<>>), ExpArray(<<>>)), Undef),
    Body(FormObject(StrV(AdaLovelace), EduNull, ExpAbsent), Undef),
    Body(FormObject(StrV(AdaLovelace), EduAbsent, ExpNumber), Undef),
    Body(GoodForm, NumV(<<"7">>)) }

NoResponse ==
  [sent |-> 0, kind |-> "", status |-> 0, error |-> "", details |-> FALSE,
   contentType |-> "", disposition |-> <<>>, contentLength |-> -1,
   bodyLen |-> -1]

\* pdf: -2 while page.pdf has not returned, -1 for null, else the length
IdleReq ==
  [pc |-> "idle", body |-> NoBody, form |-> FormOfKind("undefined"),
   html |-> NoHtml, normalized |-> 0, browser |-> 0, calls |-> <<>>,
   pdf |-> -2, thrownAt |-> "", escaped |-> FALSE, res |-> NoResponse]

\* res.status(status).json({error, details?}); headers set earlier with
\* setHeader stay, Content-Type is overwritten.
Json(rq, status, error, details) ==
  [rq EXCEPT !.pc = "done",
             !.res = [rq.res EXCEPT !.sent = @ + 1, !.kind = "json",
                                    !.status = status, !.error = error,
                                    !.details = details,
                                    !.contentType = "application/json"]]

\* The catch of the whole handler.
OuterCatchRethrows(rq, stage) ==
  [rq EXCEPT !.pc = "done", !.thrownAt = stage, !.escaped = TRUE]

OuterCatch(rq, stage) ==
  Json([rq EXCEPT !.thrownAt = stage], 500, "PDF generation failed", TRUE)

\* The catch around the launch.
\* A catch that logs and returns without answering.
LaunchCatchUnanswered(rq, i) ==
  [rq EXCEPT !.pc = "done", !.thrownAt = "launch"]

LaunchCatchGeneric(rq, i) ==
  Json([rq EXCEPT !.thrownAt = "launch"], 500, "PDF generation failed", FALSE)

LaunchCatch(rq, i) ==
  Json([rq EXCEPT !.thrownAt = "launch"], 500,
       IF i = "exportPdf" THEN "Failed to launch browser"
                          ELSE "Failed to launch Chromium",
       FALSE)

\* The three setHeader calls and res.end(pdfBuffer); Buffer.from keeps the
\* length of the Uint8Array.
SendPdfLengthOfName(rq, name, len) ==
  [rq EXCEPT !.pc = "done",
             !.res = [rq.res EXCEPT !.sent = @ + 1, !.kind = "pdf",
                                    !.status = 200,
                                    !.contentType = "application/pdf",
                                    !.disposition = name,
                                    !.contentLength = Len(name),
                                    !.bodyLen = len]]

SendPdf(rq, name, len) ==
  [rq EXCEPT !.pc = "done",
             !.res = [rq.res EXCEPT !.sent = @ + 1, !.kind = "pdf",
                                    !.status = 200,
                                    !.contentType = "application/pdf",
                                    !.disposition = name,
                                    !.contentLength = len,
                                    !.bodyLen = len]]

\* ------------------------------------------------------------------------
\* The export handler up to its first await
\* ------------------------------------------------------------------------
\* cleanSummary, the markup, then the launch is called and awaited.
Assemble(rq, i) ==
  LET cs == cleanSummary(rq.body.gensummary)
      html == IF i = "exportPdf" THEN buildResumeHtml(rq.form, cs.out)
              ELSE IF i = "server" THEN InlineHtml(rq.form, cs.out)
              ELSE OlderInlineHtml(rq.form, cs.out)
  IN IF cs.threw THEN OuterCatch(rq, "summary")
     ELSE IF html.threw THEN OuterCatch(rq, "html")
     ELSE [rq EXCEPT !.html = html, !.pc = "launch", !.calls = <<"launch">>]

\* The markup assembled first and form.education normalized after it.
NormalizeFormLate(rq, i) ==
  LET n == normalizeEducationArray(rq.form.education)
      a == Assemble(rq, i)
  IN IF n.threw THEN OuterCatch(rq, "normalize")
     ELSE [a EXCEPT !.form.education = n.out, !.normalized = @ + 1]

\* form.education = normalizeEducationArray(form.education), form an object;
\* normalized counts the calls of the normalizer in this request.
NormalizeForm(rq, i) ==
  LET n == normalizeEducationArray(rq.form.education)
  IN IF n.threw THEN OuterCatch(rq, "normalize")
     ELSE Assemble([rq EXCEPT !.form.education = n.out,
                              !.normalized = @ + 1], i)

\* exportPdf: destructure req.body, check form, normalize.
ExportPdfStart(rq0, body) ==
  LET rq == [rq0 EXCEPT !.body = body, !.form = body.form]
  IN IF ~body.present THEN OuterCatch(rq, "body")
     ELSE IF FormFalsy(body.form)
     THEN Json(rq, 400, "Form data missing", FALSE)
     ELSE NormalizeForm(rq, "exportPdf")

\* The monolithic handlers: form.education is read and assigned before the
\* check of form.  Reading a property of undefined or null raises a
\* TypeError; so does assigning a property of a primitive in a module
\* (strict mode).  The check of form comes after both.
MonolithStart(rq0, body, i) ==
  LET rq == [rq0 EXCEPT !.body = body, !.form = body.form]
  IN IF ~body.present THEN OuterCatch(rq, "body")
     ELSE IF body.form.t # "object" THEN OuterCatch(rq, "form")
     ELSE IF FormFalsy(body.form)
     THEN Json(rq, 400, "Form data missing", FALSE)
     ELSE NormalizeForm(rq, i)

HandlerStart(rq0, body, i) ==
  IF i = "exportPdf" THEN ExportPdfStart(rq0, body)
                     ELSE MonolithStart(rq0, body, i)

\* After browser.close() returned: the empty check, the file name, the
\* headers and the body.
AfterCloseNoEmptyCheck(rq) ==
  LET fn == FileNameOf(rq.form.name)
  IN IF fn.threw THEN OuterCatch(rq, "fileName")
     ELSE SendPdf(rq, fn.out, IF rq.pdf < 0 THEN 0 ELSE rq.pdf)

\* The empty check answers without returning: the headers and the body
\* follow the 500.
AfterCloseFallsThrough(rq) ==
  LET fn == FileNameOf(rq.form.name)
      answered == IF rq.pdf <= 0
                  THEN Json(rq, 500, "Generated PDF is empty", FALSE)
                  ELSE rq
  IN IF fn.threw THEN OuterCatch(answered, "fileName")
     ELSE SendPdf(answered, fn.out, IF rq.pdf < 0 THEN 0 ELSE rq.pdf)

AfterClose(rq) ==
  LET fn == FileNameOf(rq.form.name)
  IN IF rq.pdf <= 0 THEN Json(rq, 500, "Generated PDF is empty", FALSE)
     ELSE IF fn.threw THEN OuterCatch(rq, "fileName")
     ELSE SendPdf(rq, fn.out, rq.pdf)

\* ------------------------------------------------------------------------
\* Actions of the export handler
\* ------------------------------------------------------------------------
HtmlOff == markup = [phase |-> "off", rq |-> IdleReq]
AuthOff == auth = [phase |-> "off"]
RetryOff == retry = [phase |-> "off"]
AccountsOff == accounts = [phase |-> "off"]
PortfolioOff == portfolio = [phase |-> "off"]
DbOff == AccountsOff /\ PortfolioOff
RestOff == HtmlOff /\ AuthOff /\ RetryOff /\ DbOff

Others == UNCHANGED <<normVars, fileVars, restVars>>

\* A request arrives; the handler runs to its first await or to its answer.
Receive(r, body) ==
  /\ reqs[r].pc = "idle"
  /\ \A q \in Reqs : q < r => reqs[q].pc # "idle"
  /\ reqs' = [reqs EXCEPT ![r] = HandlerStart(reqs[r], body, impl)]
  /\ UNCHANGED <<impl, openBrowsers>>
  /\ Others

\* Every launch returns a browser of its own; requests are numbered in the
\* order in which they arrive, and the browser launched for request r is
\* named r.
NewBrowser(r) == r

\* getBrowser() / puppeteer.launch resolves; browser.newPage() is called.
LaunchReturns(r) ==
  /\ reqs[r].pc = "launch"
  /\ reqs' = [reqs EXCEPT ![r].browser = NewBrowser(r), ![r].pc = "newPage",
                          ![r].calls = Append(@, "newPage")]
  /\ openBrowsers' = openBrowsers \cup {NewBrowser(r)}
  /\ UNCHANGED impl
  /\ Others

LaunchThrows(r) ==
  /\ reqs[r].pc = "launch"
  /\ reqs' = [reqs EXCEPT ![r] = LaunchCatch(reqs[r], impl)]
  /\ UNCHANGED <<impl, openBrowsers>>
  /\ Others

\* An awaited page call resolves and the next call is made.
StepReturns(r, from, to) ==
  /\ reqs[r].pc = from
  /\ reqs' = [reqs EXCEPT ![r].pc = to, ![r].calls = Append(@, to)]
  /\ UNCHANGED <<impl, openBrowsers>>
  /\ Others

\* An awaited page call rejects; the browser process may have died with it
\* or may still run.
StepThrows(r, at, died) ==
  /\ reqs[r].pc = at
  /\ reqs' = [reqs EXCEPT ![r] = OuterCatch(reqs[r], at)]
  /\ openBrowsers' = IF died THEN openBrowsers \ {reqs[r].browser}
                             ELSE openBrowsers
  /\ UNCHANGED impl
  /\ Others

NewPageReturns(r) == StepReturns(r, "newPage", "setContent")
NewPageThrows(r, died) == StepThrows(r, "newPage", died)
SetContentReturns(r) == StepReturns(r, "setContent", "pdf")
SetContentThrows(r, died) == StepThrows(r, "setContent", died)

\* page.pdf resolves with null (n = -1) or n bytes; browser.close() is called.
PdfReturns(r, n) ==
  /\ reqs[r].pc = "pdf"
  /\ reqs' = [reqs EXCEPT ![r].pdf = n, ![r].pc = "close",
                          ![r].calls = Append(@, "close")]
  /\ UNCHANGED <<impl, openBrowsers>>
  /\ Others

PdfThrows(r, died) == StepThrows(r, "pdf", died)

CloseReturns(r) ==
  /\ reqs[r].pc = "close"
  /\ reqs' = [reqs EXCEPT ![r] = AfterClose(reqs[r])]
  /\ openBrowsers' = openBrowsers \ {reqs[r].browser}
  /\ UNCHANGED impl
  /\ Others

CloseThrows(r, died) == StepThrows(r, "close", died)

Init ==
  /\ impl \in Impls
  /\ reqs = [r \in Reqs |-> IdleReq]
  /\ openBrowsers = {}
  /\ NormOff
  /\ FileOff
  /\ RestOff

Next ==
  \E r \in Reqs :
    \/ \E body \in Bodies : Receive(r, body)
    \/ LaunchReturns(r)
    \/ LaunchThrows(r)
    \/ NewPageReturns(r)
    \/ \E died \in BOOLEAN : NewPageThrows(r, died)
    \/ SetContentReturns(r)
    \/ \E died \in BOOLEAN : SetContentThrows(r, died)
    \/ \E n \in -1..MaxPdfLen : PdfReturns(r, n)
    \/ \E died \in BOOLEAN : PdfThrows(r, died)
    \/ CloseReturns(r)
    \/ \E died \in BOOLEAN : CloseThrows(r, died)

Spec == Init /\ [][Next]_vars

\* The awaited engine call of request r settles: it returns or it throws.
EngineCallSettles(r) ==
  \/ LaunchReturns(r)
  \/ LaunchThrows(r)
  \/ NewPageReturns(r)
  \/ \E died \in BOOLEAN : NewPageThrows(r, died)
  \/ SetContentReturns(r)
  \/ \E died \in BOOLEAN : SetContentThrows(r, died)
  \/ \E n \in -1..MaxPdfLen : PdfReturns(r, n)
  \/ \E died \in BOOLEAN : PdfThrows(r, died)
  \/ CloseReturns(r)
  \/ \E died \in BOOLEAN : CloseThrows(r, died)

\* exportPdf with engines whose calls all settle: the continuation of an
\* await runs once its promise has settled.
InitLive == Init /\ impl = "exportPdf"

SpecLive ==
  InitLive /\ [][Next]_vars /\ \A r \in Reqs : WF_vars(EngineCallSettles(r))

\* ------------------------------------------------------------------------
\* The education normalizer on drawn inputs: savePortfolio normalizes the
\* education of the body and stores it; exportPdf later normalizes the
\* education of a form that carries the stored one.
\* ------------------------------------------------------------------------
RECURSIVE SeqsUpTo(_, _)
SeqsUpTo(S, n) ==
  IF n = 0 THEN {<<>>}
  ELSE LET shorter == SeqsUpTo(S, n - 1)
       IN shorter \cup {Append(q, x) : q \in shorter, x \in S}

BSc == <<"B", "S", "c">>
OtherLeadingBlank == <<" ", "O", "t", "h", "e", "r">>
OtherPadded == <<" ", "O", "t", "h", "e", "r", " ">>

EduTypes == {Undef, StrV(Other), StrV(BSc), StrV(OtherLeadingBlank)}
EduTypeOthers ==
  {Undef, StrV(<<" ">>), StrV(MScPadded), StrV(OtherPadded), NumV(<<"7">>)}
Institutes == {Undef, StrV(MIT)}

\* An entry that is null, and one that is a number: neither has fields.
NullEntry ==
  [t |-> "null", eduType |-> Undef, eduTypeOther |-> Undef, institute |-> Undef]
NumberEntry ==
  [t |-> "number", eduType |-> Undef, eduTypeOther |-> Undef, institute |-> Undef]

Entries ==
  {[t |-> "object", eduType |-> a, eduTypeOther |-> b, institute |-> c] :
     a \in EduTypes, b \in EduTypeOthers, c \in Institutes}
    \cup {NullEntry, NumberEntry}

EduInputs ==
  {EduArray(items) : items \in SeqsUpTo(Entries, MaxEdu)}
    \cup {EduAbsent, EduNull, EduString}

Ran(n) == [ran |-> TRUE, threw |-> n.threw, out |-> n.out]

\* savePortfolio: education: normalizeEducationArray(req.body.education);
\* the document is inserted only if that call returned.
SavePortfolio ==
  /\ nphase = "input"
  /\ LET n == normalizeEducationArray(education)
     IN /\ saved' = Ran(n)
        /\ education' = n.src
  /\ nphase' = "saved"
  /\ UNCHANGED <<education0, exported, exportVars, fileVars, restVars>>

\* exportPdf on a form whose education is the stored one.
ExportSaved ==
  /\ nphase = "saved"
  /\ ~saved.threw
  /\ exported' = Ran(normalizeEducationArray(saved.out))
  /\ nphase' = "exported"
  /\ UNCHANGED <<education, education0, saved, exportVars, fileVars, restVars>>

ExportOff == impl = "exportPdf" /\ reqs = [r \in Reqs |-> IdleReq] /\ openBrowsers = {}

InitNorm ==
  /\ education \in EduInputs
  /\ education0 = education
  /\ saved = NotRun
  /\ exported = NotRun
  /\ nphase = "input"
  /\ ExportOff
  /\ FileOff
  /\ RestOff

NextNorm == SavePortfolio \/ ExportSaved

SpecNorm == InitNorm /\ [][NextNorm]_vars

\* ------------------------------------------------------------------------
\* The file name derivation on drawn names
\* ------------------------------------------------------------------------
NameAlphabet == {"a", "Z", "7", "_", "-", " ", "'", "!", "."}
LongAlphabet == {"a", " ", "."}

Repeat(c, n) == [i \in 1..n |-> c]

JaneOBrien ==
  <<"J", "a", "n", "e", " ", "O", "'", "B", "r", "i", "e", "n", "!", "!">>

NameInputs ==
  {StrV(n) : n \in SeqsUpTo(NameAlphabet, MaxNameLen)}
    \cup {StrV(Repeat(c, n)) :
            c \in LongAlphabet, n \in (StemCap - LongSlack)..(StemCap + LongSlack)}
    \cup {StrV(AdaLovelace), StrV(JaneOBrien), Undef, Null,
          NumV(<<"0">>), NumV(<<"7">>)}

DeriveFileName ==
  /\ fphase = "input"
  /\ fileName' = FileNameOf(nameIn)
  /\ fphase' = "derived"
  /\ UNCHANGED <<nameIn, exportVars, normVars, restVars>>

InitFileName ==
  /\ nameIn \in NameInputs
  /\ fileName = NoFile
  /\ fphase = "input"
  /\ ExportOff
  /\ NormOff
  /\ RestOff

NextFileName == DeriveFileName

SpecFileName == InitFileName /\ [][NextFileName]_vars

\* ------------------------------------------------------------------------
\* Markup assembly on its own (specification SpecHtml): one form and one
\* summary go through the start of the mounted handler, which normalizes the
\* education, cleans the summary and assembles the document.
\* ------------------------------------------------------------------------
Blank == <<" ">>
Dev == <<"D", "e", "v">>
Acme == <<"A", "c", "m", "e">>
Go == <<"G", "o">>
PyPadded == <<" ", "P", "y", " ">>
English == <<"E", "n">>
Indian == <<"I", "N">>

ExpEntry(role, company, duration, activities) ==
  [role |-> role, company |-> company, duration |-> duration,
   activities |-> activities]
ExpEntries ==
  {ExpEntry(r, c, d, Undef) :
     r \in {Undef, StrV(Blank), StrV(Dev)}, c \in {Undef, StrV(Acme)},
     d \in {Undef, StrV(<<"2">>)}}
  \cup {ExpEntry(Undef, Undef, Undef, StrV(Dev))}

HttpSite == <<"h", "t", "t", "p", ":", "/", "/", "a">>
HttpsSite == <<"h", "t", "t", "p", "s", ":", "/", "/", "a">>

Project(name, description, link, keyPoints, technologies) ==
  [name |-> name, description |-> description, link |-> link,
   keyPoints |-> keyPoints, technologies |-> technologies]
Projects ==
  {Project(n, d, Undef, ListAbsent, t) :
     n \in {Undef, StrV(Dev)}, d \in {Undef, StrV(Acme)},
     t \in {Undef, StrV(Go)}}
  \cup {Project(Undef, Undef, StrV(Go), ListAbsent, StrV(Blank)),
        Project(Undef, Undef, Undef, List(<<StrV(Blank)>>), StrV(Blank)),
        Project(StrV(Dev), Undef, Undef, List(<<StrV(Blank), StrV(Go)>>),
                StrV(Go)),
        Project(StrV(Dev), Undef, StrV(HttpSite), ListAbsent, StrV(Go)),
        Project(StrV(Dev), Undef, StrV(Go), ListAbsent, StrV(Go)),
        Project(StrV(Dev), Undef, Undef, List(<<StrV(Blank)>>), StrV(Blank))}

Certificate(title, issuedBy, issuedOn, credential) ==
  [title |-> title, issuedBy |-> issuedBy, issuedOn |-> issuedOn,
   credential |-> credential]
Certificates ==
  {Certificate(t, b, Undef, c) :
     t \in {Undef, StrV(Dev)}, b \in {Undef, StrV(Acme)},
     c \in {Undef, StrV(Go)}}
  \cup {Certificate(Undef, Undef, StrV(<<"2">>), Undef),
        Certificate(StrV(Blank), Undef, Undef, Undef),
        Certificate(StrV(Dev), Undef, Undef, StrV(HttpSite)),
        Certificate(StrV(Dev), Undef, Undef, StrV(HttpsSite))}

Language(language, read) ==
  [language |-> language, read |-> read, write |-> FALSE, speak |-> FALSE]
Languages ==
  {Language(l, r) : l \in {Undef, StrV(Blank), StrV(English)}, r \in BOOLEAN}

SkillEntries == {StrV(<<>>), StrV(Blank), StrV(Go), StrV(PyPadded)}
SkillChars == {"a", ",", " "}
GoPythonRust ==
  <<"G", "o", ",", " ", "P", "y", ",", " ", " ", ",", " ", "R", "s">>
SkillInputs ==
  {SkillsAbsent, SkillsNumber, SkillsString(GoPythonRust)}
  \cup {SkillsArray(s) : s \in SeqsUpTo(SkillEntries, MaxItems)}
  \cup {SkillsString(s) : s \in SeqsUpTo(SkillChars, MaxSkillChars)}

SummaryChars == {"*", "a", " "}
SummaryInputs ==
  {Undef, Null} \cup {StrV(s) : s \in SeqsUpTo(SummaryChars, MaxSummaryLen)}

HtmlEduEntries ==
  {[t |-> "object", eduType |-> a, eduTypeOther |-> b, institute |-> StrV(MIT)] :
     a \in {StrV(Other), StrV(BSc)}, b \in {Undef, StrV(Blank), StrV(MScPadded)}}

\* A form with something to show in every section.
FullForm ==
  [GoodForm EXCEPT
     !.experience = ExpArray(<<ExpEntry(StrV(Dev), StrV(Acme), Undef, Undef)>>),
     !.projects = List(<<Project(StrV(Dev), Undef, Undef, ListAbsent, StrV(Go))>>),
     !.skills = SkillsArray(<<StrV(Go)>>),
     !.certificates = List(<<Certificate(StrV(Dev), Undef, Undef, Undef)>>),
     !.languages = List(<<Language(StrV(English), TRUE)>>),
     !.nationality = StrV(Indian),
     !.availabilityType = StrV(NoticePeriod),
     !.noticePeriod = StrV(<<"3", "0">>),
     !.city = StrV(Go), !.state = StrV(Go), !.pincode = StrV(<<"2">>),
     !.emailId = StrV(Dev), !.phoneNo = StrV(<<"2">>),
     !.linkedIn = StrV(Acme), !.portfolioLink = StrV(Acme)]

HtmlForms ==
  {FormOfKind("object")}
  \cup {[FullForm EXCEPT !.experience = x] :
          x \in {ExpAbsent} \cup {ExpArray(s) : s \in SeqsUpTo(ExpEntries, MaxItems)}}
  \cup {[FullForm EXCEPT !.projects = x] :
          x \in {ListAbsent} \cup {List(s) : s \in SeqsUpTo(Projects, MaxItems)}}
  \cup {[FullForm EXCEPT !.certificates = x] :
          x \in {ListAbsent} \cup {List(s) : s \in SeqsUpTo(Certificates, MaxItems)}}
  \cup {[FullForm EXCEPT !.skills = x] : x \in SkillInputs}
  \cup {[FullForm EXCEPT !.education = x] :
          x \in {EduAbsent} \cup {EduArray(s) : s \in SeqsUpTo(HtmlEduEntries, MaxItems)}}
  \cup {[FullForm EXCEPT !.languages = l, !.nationality = n,
                         !.availabilityType = a] :
          l \in {ListAbsent} \cup {List(s) : s \in SeqsUpTo(Languages, MaxItems)},
          n \in {Undef, StrV(Blank), StrV(Indian)},
          a \in {Undef, StrV(Blank), StrV(NoticePeriod)}}
  \cup {[FullForm EXCEPT !.availabilityType = a, !.noticePeriod = n,
                         !.availableFromDate = d] :
          a \in {StrV(NoticePeriod), StrV(AvailableFrom), StrV(Go)},
          n \in {Undef, StrV(<<"3", "0">>)}, d \in {Undef, StrV(<<"2">>)}}
  \cup {[FullForm EXCEPT !.city = c, !.state = t, !.pincode = z,
                         !.emailId = e, !.phoneNo = n, !.linkedIn = l,
                         !.portfolioLink = o] :
          c \in {Undef, StrV(Go)}, t \in {Undef, StrV(Go)},
          z \in {Undef, StrV(<<"2">>)}, e \in {Undef, StrV(Blank), StrV(Dev)},
          n \in {Undef, StrV(<<"2">>)}, l \in {Undef, StrV(Acme)},
          o \in {Undef, StrV(Acme)}}

HtmlInputs ==
  {Body(f, StrV(StarredSummary)) : f \in HtmlForms}
  \cup {Body(FullForm, g) : g \in SummaryInputs}

\* The synchronous start of the handler, up to the assembled document.
AssembleMarkup ==
  /\ markup.phase = "input"
  /\ markup' = [phase |-> "done",
                rq |-> HandlerStart(markup.rq, markup.rq.body, impl)]
  /\ UNCHANGED <<exportVars, normVars, fileVars, auth, retry, dbVars>>

InitHtml ==
  /\ impl \in Impls
  /\ reqs = [r \in Reqs |-> IdleReq]
  /\ openBrowsers = {}
  /\ \E b \in HtmlInputs :
       markup = [phase |-> "input", rq |-> [IdleReq EXCEPT !.body = b]]
  /\ NormOff
  /\ FileOff
  /\ AuthOff
  /\ RetryOff
  /\ DbOff

NextHtml == AssembleMarkup

SpecHtml == InitHtml /\ [][NextHtml]_vars

\* ------------------------------------------------------------------------
\* The portfolio routes behind authMiddleware (specification SpecAuth)
\* ------------------------------------------------------------------------
\* req.headers.authorization?.split(" ")[1]
aiToken(authorization) ==
  IF authorization.t # "string" THEN Undef
  ELSE LET parts == SplitAt(authorization.s, " ")
       IN IF Len(parts) >= 2 THEN StrV(parts[2]) ELSE Undef

\* The tokens signed with JWT_SECRET and not expired.
SignedTokens == {<<"g">>}

\* jwt.verify(token, JWT_SECRET) returns the decoded payload (TRUE) or
\* throws (FALSE); it throws for a token that is no string.
jwtVerify(token) == token.t = "string" /\ token.s \in SignedTokens

Reject(error) == [next |-> FALSE, status |-> 401, error |-> error]
PassOn == [next |-> TRUE, status |-> 0, error |-> ""]

\* authMiddleware of auth.middleware.js and of the monoliths
authMiddleware(authorization) ==
  LET token == aiToken(authorization)
  IN IF ~Truthy(token) THEN Reject("Unauthorized")
     ELSE IF jwtVerify(token) THEN PassOn
     ELSE Reject("Invalid token")

\* authMiddleware of part_002: if (aiToken) return 401
authMiddlewareOfPart002(authorization) ==
  LET token == aiToken(authorization)
  IN IF Truthy(token) THEN Reject("Unauthorized")
     ELSE IF jwtVerify(token) THEN PassOn
     ELSE Reject("Invalid token")

\* How a server of the repository mounts POST /portfolio and GET /portfolio:
\* the middleware in front of each ("" when there is none), and whether the
\* handler reads req.user.id (it raises without a user) or req.user?.id.
Wiring(name, post, get, optionalUser) ==
  [name |-> name, POST |-> post, GET |-> get, optionalUser |-> optionalUser]
Wirings ==
  { Wiring("portfolio.routes.js", "auth.middleware.js", "auth.middleware.js", FALSE),
    Wiring("portfolio.routes.js with part_002", "part_002", "part_002", FALSE),
    Wiring("router without middleware", "", "", FALSE),
    Wiring("server.js", "auth.middleware.js", "", FALSE),
    Wiring("part_000", "", "auth.middleware.js", TRUE) }
Methods == {"POST", "GET"}

HeaderChars == {"B", " ", "g", "x"}
Authorizations ==
  {Undef} \cup {StrV(s) : s \in SeqsUpTo(HeaderChars, MaxHeaderLen)}

AuthRequest(w, m, h) ==
  [phase |-> "received", wiring |-> w, method |-> m, authorization |-> h,
   user |-> FALSE, handlerCalled |-> FALSE, status |-> 0, error |-> ""]

Guard == auth.wiring[auth.method]

\* Express calls the middleware of the route; it answers 401 or attaches
\* the decoded user and calls next().
RunMiddleware ==
  /\ auth.phase = "received"
  /\ Guard # ""
  /\ LET verdict == IF Guard = "part_002"
                    THEN authMiddlewareOfPart002(auth.authorization)
                    ELSE authMiddleware(auth.authorization)
     IN auth' = IF verdict.next
                THEN [auth EXCEPT !.phase = "handler", !.user = TRUE,
                                  !.handlerCalled = TRUE]
                ELSE [auth EXCEPT !.phase = "answered",
                                  !.status = verdict.status,
                                  !.error = verdict.error]
  /\ UNCHANGED <<exportVars, normVars, fileVars, markup, retry, dbVars>>

\* A route without middleware: Express calls the handler at once.
SkipMiddleware ==
  /\ auth.phase = "received"
  /\ Guard = ""
  /\ auth' = [auth EXCEPT !.phase = "handler", !.handlerCalled = TRUE]
  /\ UNCHANGED <<exportVars, normVars, fileVars, markup, retry, dbVars>>

\* savePortfolio / getPortfolios answer once the database call resolved;
\* req.user.id raises when no user is attached.
HandlerReturns ==
  /\ auth.phase = "handler"
  /\ auth.user \/ auth.wiring.optionalUser
  /\ auth' = [auth EXCEPT !.phase = "answered", !.status = 200]
  /\ UNCHANGED <<exportVars, normVars, fileVars, markup, retry, dbVars>>

\* The catch of the handler: the database call rejected or req.user.id raised.
HandlerFails ==
  /\ auth.phase = "handler"
  /\ auth' = [auth EXCEPT !.phase = "answered", !.status = 500,
                          !.error = IF auth.method = "POST"
                                    THEN "Failed to save portfolio"
                                    ELSE "Failed to fetch portfolio"]
  /\ UNCHANGED <<exportVars, normVars, fileVars, markup, retry, dbVars>>

InitAuth ==
  /\ \E w \in Wirings, m \in Methods, h \in Authorizations :
       auth = AuthRequest(w, m, h)
  /\ ExportOff
  /\ NormOff
  /\ FileOff
  /\ HtmlOff
  /\ RetryOff
  /\ DbOff

NextAuth == RunMiddleware \/ SkipMiddleware \/ HandlerReturns \/ HandlerFails

SpecAuth == InitAuth /\ [][NextAuth]_vars

\* ------------------------------------------------------------------------
\* generateWithRetry (specification SpecRetry)
\* ------------------------------------------------------------------------
DefaultRetries == 3

\* String.prototype.includes
Includes(s, sub) ==
  \E k \in 1..(Len(s) - Len(sub) + 1) : SubSeq(s, k, k + Len(sub) - 1) = sub

Code503 == <<"5", "0", "3">>
\* error.message of a rejected generateContent
Messages ==
  { Code503, <<"e", " ", "5", "0", "3", "!">>, <<"4", "2", "9">>, <<"5", "0">> }
\* result.response.text()
Texts == { <<"H", "i">>, <<>> }

\* The retries argument: left out (the default applies) or a number.
RetriesArgs ==
  {[given |-> FALSE, n |-> 0]} \cup {[given |-> TRUE, n |-> n] : n \in 0..MaxRetries}

RetryCall(arg) ==
  [phase |-> "loop", arg |-> arg,
   retries |-> IF arg.given THEN arg.n ELSE DefaultRetries,
   i |-> 0, calls |-> 0, log |-> <<>>,
   returned |-> "", text |-> <<>>, thrown |-> <<>>]

\* i < retries holds: model.generateContent(prompt) is called.
CallModel ==
  /\ retry.phase = "loop"
  /\ retry.i < retry.retries
  /\ retry' = [retry EXCEPT !.phase = "calling", !.calls = @ + 1]
  /\ UNCHANGED <<exportVars, normVars, fileVars, markup, auth, dbVars>>

\* i < retries fails: the loop ends and the function returns undefined.
LeaveLoop ==
  /\ retry.phase = "loop"
  /\ ~(retry.i < retry.retries)
  /\ retry' = [retry EXCEPT !.phase = "completed", !.returned = "undefined"]
  /\ UNCHANGED <<exportVars, normVars, fileVars, markup, auth, dbVars>>

\* return result.response.text()
AttemptReturns(text) ==
  /\ retry.phase = "calling"
  /\ retry' = [retry EXCEPT !.phase = "completed", !.returned = "text",
                            !.text = text,
                            !.log = Append(@, [ok |-> TRUE, message |-> <<>>])]
  /\ UNCHANGED <<exportVars, normVars, fileVars, markup, auth, dbVars>>

\* catch (error): wait 3 s when the message has "503" and i < retries - 1,
\* else throw error.
AttemptThrows(message) ==
  /\ retry.phase = "calling"
  /\ retry' = IF Includes(message, Code503) /\ retry.i < retry.retries - 1
              THEN [retry EXCEPT !.phase = "waiting",
                                 !.log = Append(@, [ok |-> FALSE, message |-> message])]
              ELSE [retry EXCEPT !.phase = "threw", !.thrown = message,
                                 !.log = Append(@, [ok |-> FALSE, message |-> message])]
  /\ UNCHANGED <<exportVars, normVars, fileVars, markup, auth, dbVars>>

\* The timer of 3000 ms fires; i++.
TimerFires ==
  /\ retry.phase = "waiting"
  /\ retry' = [retry EXCEPT !.phase = "loop", !.i = @ + 1]
  /\ UNCHANGED <<exportVars, normVars, fileVars, markup, auth, dbVars>>

InitRetry ==
  /\ \E arg \in RetriesArgs : retry = RetryCall(arg)
  /\ ExportOff
  /\ NormOff
  /\ FileOff
  /\ HtmlOff
  /\ AuthOff
  /\ DbOff

NextRetry ==
  \/ CallModel
  \/ LeaveLoop
  \/ \E text \in Texts : AttemptReturns(text)
  \/ \E message \in Messages : AttemptThrows(message)
  \/ TimerFires

SpecRetry == InitRetry /\ [][NextRetry]_vars

\* ------------------------------------------------------------------------
\* /auth/register (specification SpecRegister)
\* ------------------------------------------------------------------------
MaxRegs == 2
Regs == 1..MaxRegs
RegisterImpls == {"controller", "server"}

AdaMail == <<"a", "@", "x">>
BobMail == <<"b", "@", "x">>

\* req.body of a registration: whether name and password are there, and
\* the email.
RegBodies ==
  { [name |-> TRUE, email |-> AdaMail, password |-> TRUE],
    [name |-> TRUE, email |-> BobMail, password |-> TRUE],
    [name |-> FALSE, email |-> AdaMail, password |-> TRUE],
    [name |-> TRUE, email |-> AdaMail, password |-> FALSE] }

IdleReg ==
  [pc |-> "idle", body |-> [name |-> FALSE, email |-> <<>>, password |-> FALSE],
   sent |-> 0, status |-> 0, error |-> "", escaped |-> FALSE]

\* res.status(status).json({error}) / res.json({success: true})
RegAnswer(rg, status, error) ==
  [rg EXCEPT !.pc = "done", !.sent = @ + 1, !.status = status, !.error = error]

\* A rejected await: the route of server.js catches it and answers 500; the
\* controller has no try, the rejection leaves the handler unanswered.
RegRejected(rg, i) ==
  IF i = "server" THEN RegAnswer(rg, 500, "Registration failed")
  ELSE [rg EXCEPT !.pc = "done", !.escaped = TRUE]

\* Up to the first await: server.js checks the three fields, both call
\* users.findOne({ email }).
RegisterStart(rg0, body, i) ==
  LET rg == [rg0 EXCEPT !.body = body]
  IN IF i = "server" /\ (~body.name \/ ~body.password)
     THEN RegAnswer(rg, 400, "All fields are required")
     ELSE [rg EXCEPT !.pc = "findOne"]

\* users.findOne({ email }): the first stored user with that email, if any.
FindOneByEmail(users, email) == \E k \in 1..Len(users) : users[k].email = email

\* After findOne resolved: 400 for a stored email, else bcrypt.hash is called.
AfterFindOne(rg, exists, i) ==
  IF exists
  THEN RegAnswer(rg, 400, IF i = "server" THEN "User already exists"
                                          ELSE "User exists")
  ELSE [rg EXCEPT !.pc = "hash"]

\* The document handed to insertOne; by names the request that inserted it.
UserDoc(rg, r) == [name |-> rg.body.name, email |-> rg.body.email, by |-> r]

RegisterReceive(r, body) ==
  /\ accounts.phase = "on"
  /\ accounts.regs[r].pc = "idle"
  /\ \A q \in Regs : q < r => accounts.regs[q].pc # "idle"
  /\ accounts' = [accounts EXCEPT
                    !.regs[r] = RegisterStart(@, body, accounts.impl)]

FindOneResolves(r) ==
  /\ accounts.phase = "on"
  /\ accounts.regs[r].pc = "findOne"
  /\ accounts' = [accounts EXCEPT
                    !.regs[r] = AfterFindOne(@,
                                  FindOneByEmail(accounts.users, @.body.email),
                                  accounts.impl)]

\* bcrypt.hash(password, 10) resolves for a string and rejects for undefined.
HashResolves(r) ==
  /\ accounts.phase = "on"
  /\ accounts.regs[r].pc = "hash"
  /\ accounts.regs[r].body.password
  /\ accounts' = [accounts EXCEPT !.regs[r].pc = "insertOne"]

HashRejects(r) ==
  /\ accounts.phase = "on"
  /\ accounts.regs[r].pc = "hash"
  /\ ~accounts.regs[r].body.password
  /\ accounts' = [accounts EXCEPT !.regs[r] = RegRejected(@, accounts.impl)]

\* users.insertOne(...) resolves: the collection has no unique index, the
\* document is appended whatever the collection holds.
InsertOneResolves(r) ==
  /\ accounts.phase = "on"
  /\ accounts.regs[r].pc = "insertOne"
  /\ accounts' = [accounts EXCEPT
                    !.users = Append(@, UserDoc(accounts.regs[r], r)),
                    !.regs[r] = RegAnswer(@, 200, "")]

\* findOne or insertOne rejects (the connection is lost).
DbRejects(r) ==
  /\ accounts.phase = "on"
  /\ accounts.regs[r].pc \in {"findOne", "insertOne"}
  /\ accounts' = [accounts EXCEPT !.regs[r] = RegRejected(@, accounts.impl)]

RegisterFrame ==
  UNCHANGED <<exportVars, normVars, fileVars, markup, auth, retry, portfolio>>

InitRegister ==
  /\ \E i \in RegisterImpls :
       accounts = [phase |-> "on", impl |-> i, users |-> <<>>,
                   regs |-> [r \in Regs |-> IdleReg]]
  /\ ExportOff
  /\ NormOff
  /\ FileOff
  /\ HtmlOff
  /\ AuthOff
  /\ RetryOff
  /\ PortfolioOff

NextRegister ==
  \E r \in Regs :
    \/ \E body \in RegBodies : RegisterReceive(r, body) /\ RegisterFrame
    \/ FindOneResolves(r) /\ RegisterFrame
    \/ HashResolves(r) /\ RegisterFrame
    \/ HashRejects(r) /\ RegisterFrame
    \/ InsertOneResolves(r) /\ RegisterFrame
    \/ DbRejects(r) /\ RegisterFrame

SpecRegister == InitRegister /\ [][NextRegister]_vars

\* ------------------------------------------------------------------------
\* savePortfolio / getPortfolios behind login (specification SpecPortfolio)
\* ------------------------------------------------------------------------
MaxSaves == 2
Saves == 1..MaxSaves
\* The _id of the stored users.
UserIds == {1, 2}

HexDigits == <<"0", "1", "2", "3", "4", "5", "6", "7",
               "8", "9", "a", "b", "c", "d", "e", "f">>

\* ObjectId.toJSON(): the hexadecimal text of the id (two digits here).
toHexString(oid) == <<HexDigits[(oid \div 16) + 1], HexDigits[(oid % 16) + 1]>>

\* login: jwt.sign({ id: user._id }); authMiddleware: req.user = decoded.
\* The payload went through JSON, its id is the text of the ObjectId.
ReqUser(u) == [id |-> toHexString(u)]

NoField == <<>>
\* req.body of POST /portfolio: a title, the education, and what a client
\* may add: userId (NoField when absent), createdAt (-1 when absent).
PortfolioBody(title, edu, userId, createdAt) ==
  [title |-> title, education |-> edu, userId |-> userId,
   createdAt |-> createdAt]

PortfolioBodies ==
  { PortfolioBody("cv", EduArray(<<OtherEntry>>), NoField, -1),
    PortfolioBody("cv", EduAbsent, toHexString(1), 0),
    PortfolioBody("cv", EduAbsent, toHexString(2), 0),
    PortfolioBody("cv", EduNull, NoField, -1) }

\* { ...req.body, education: ..., userId: req.user.id, createdAt: new Date() }
\* with the keys of the body written last: a key of the body wins.
PortfolioDataBodyLast(body, user, now) ==
  LET n == normalizeEducationArray(body.education)
  IN [threw |-> n.threw,
      data |-> [title |-> body.title, education |-> n.out,
                userId |-> IF body.userId # NoField THEN body.userId
                           ELSE user.id,
                createdAt |-> IF body.createdAt # -1 THEN body.createdAt
                              ELSE now]]

\* { ...req.body, education: normalizeEducationArray(req.body.education),
\*   userId: req.user.id, createdAt: new Date() }: a later key replaces the
\* same key of the spread body.
PortfolioData(body, user, now) ==
  LET n == normalizeEducationArray(body.education)
  IN [threw |-> n.threw,
      data |-> [title |-> body.title, education |-> n.out,
                userId |-> user.id, createdAt |-> now]]

IdleSave ==
  [pc |-> "idle", by |-> 0, body |-> PortfolioBody("", EduAbsent, NoField, -1),
   data |-> PortfolioData(PortfolioBody("", EduAbsent, NoField, -1),
                          [id |-> NoField], 0).data,
   status |-> 0]

\* find({ userId }): the stored documents whose userId equals the text.
FindByUserId(docs, userId) == SelectSeq(docs, LAMBDA d : d.data.userId = userId)

\* .sort({ createdAt: -1 }) of documents with distinct createdAt.
RECURSIVE SortNewestFirst(_)
SortNewestFirst(docs) ==
  IF docs = <<>> THEN <<>>
  ELSE LET k == CHOOSE i \in 1..Len(docs) :
                  \A j \in 1..Len(docs) :
                    docs[j].data.createdAt <= docs[i].data.createdAt
       IN <<docs[k]>> \o
          SortNewestFirst(SubSeq(docs, 1, k - 1) \o SubSeq(docs, k + 1, Len(docs)))

\* savePortfolio of a request that passed authMiddleware with the token of
\* user u: the document is built at the call, new Date() is the time of the
\* call; a throwing normalizer is answered 500 by the catch.
SaveCall(s, u, body) ==
  /\ portfolio.phase = "on"
  /\ portfolio.saves[s].pc = "idle"
  /\ \A q \in Saves : q < s => portfolio.saves[q].pc # "idle"
  /\ LET d == PortfolioData(body, ReqUser(u), portfolio.now)
     IN portfolio' =
          [portfolio EXCEPT
             !.now = @ + 1,
             !.saves[s] = IF d.threw
                          THEN [@ EXCEPT !.pc = "done", !.by = u,
                                         !.body = body, !.status = 500]
                          ELSE [@ EXCEPT !.pc = "insertOne", !.by = u,
                                         !.body = body, !.data = d.data]]

\* insertOne resolves: the document is stored; src names the save it came
\* from.
InsertResolves(s) ==
  /\ portfolio.phase = "on"
  /\ portfolio.saves[s].pc = "insertOne"
  /\ portfolio' =
       [portfolio EXCEPT
          !.docs = Append(@, [src |-> s, data |-> portfolio.saves[s].data]),
          !.saves[s] = [@ EXCEPT !.pc = "done", !.status = 200]]

InsertRejects(s) ==
  /\ portfolio.phase = "on"
  /\ portfolio.saves[s].pc = "insertOne"
  /\ portfolio' =
       [portfolio EXCEPT !.saves[s] = [@ EXCEPT !.pc = "done", !.status = 500]]

\* getPortfolios with the token of user u: the find runs against the
\* collection as it is then; seen is the size of the collection at the find.
GetPortfolios(u) ==
  /\ portfolio.phase = "on"
  /\ portfolio' =
       [portfolio EXCEPT
          !.got[u] = [ran |-> TRUE, seen |-> Len(portfolio.docs),
                      out |-> SortNewestFirst(
                                FindByUserId(portfolio.docs, ReqUser(u).id))]]

PortfolioFrame ==
  UNCHANGED <<exportVars, normVars, fileVars, markup, auth, retry, accounts>>

InitPortfolio ==
  /\ portfolio = [phase |-> "on", now |-> 1, docs |-> <<>>,
                  saves |-> [s \in Saves |-> IdleSave],
                  got |-> [u \in UserIds |->
                             [ran |-> FALSE, seen |-> 0, out |-> <<>>]]]
  /\ ExportOff
  /\ NormOff
  /\ FileOff
  /\ HtmlOff
  /\ AuthOff
  /\ RetryOff
  /\ AccountsOff

NextPortfolio ==
  \/ \E s \in Saves, u \in UserIds, body \in PortfolioBodies :
       SaveCall(s, u, body) /\ PortfolioFrame
  \/ \E s \in Saves : InsertResolves(s) /\ PortfolioFrame
  \/ \E s \in Saves : InsertRejects(s) /\ PortfolioFrame
  \/ \E u \in UserIds : GetPortfolios(u) /\ PortfolioFrame

SpecPortfolio == InitPortfolio /\ [][NextPortfolio]_vars

\* ------------------------------------------------------------------------
\* Properties of the export handler (specification Spec)
\* ------------------------------------------------------------------------
Done(r) == reqs[r].pc = "done"

\* C1: a request whose body carries no form (absent, null or otherwise
\* falsy) is answered 400 {error: "Form data missing"}, by exportPdf and by
\* the monolithic handlers alike.
C1_MissingFormIs400 ==
  \A r \in Reqs :
    (Done(r) /\ reqs[r].body.present /\ FormFalsy(reqs[r].body.form))
      => /\ reqs[r].res.status = 400
         /\ reqs[r].res.error = "Form data missing"

\* C2: once a browser was launched for a request, browser.close() was called
\* and the browser is no longer open when the request has been answered, on
\* every exit path.
C2_BrowserClosedWhenAnswered ==
  \A r \in Reqs :
    (Done(r) /\ reqs[r].browser # 0)
      => /\ \E i \in 1..Len(reqs[r].calls) : reqs[r].calls[i] = "close"
         /\ reqs[r].browser \notin openBrowsers

\* The places of the handler, other than the launch, where an exception is
\* raised.
HandlerStages ==
  {"body", "form", "normalize", "summary", "html", "newPage", "setContent",
   "pdf", "close", "fileName"}

\* C3: every exception raised inside the handler (reading the body,
\* normalizing, assembling, newPage, setContent, pdf, close, the file name)
\* is answered once with status 500 and an envelope {error, details}, and
\* none escapes the handler.
C3_ExceptionsAnswered500 ==
  \A r \in Reqs :
    /\ ~reqs[r].escaped
    /\ reqs[r].thrownAt \in HandlerStages
         => /\ Done(r)
            /\ reqs[r].res.sent = 1
            /\ reqs[r].res.kind = "json"
            /\ reqs[r].res.status = 500
            /\ reqs[r].res.error # ""
            /\ reqs[r].res.details

C3_Witness ==
  \E r \in Reqs :
    /\ Done(r) /\ reqs[r].thrownAt = "fileName"
    /\ reqs[r].res.status = 500 /\ reqs[r].res.details

\* C4: when the launch throws, the answer is 500 with an error message that
\* no other failure response of the endpoint carries, and no newPage,
\* setContent, pdf or close call is made for that request.
C4_LaunchFailureDistinct ==
  \A r \in Reqs :
    reqs[r].thrownAt = "launch"
      => /\ Done(r)
         /\ reqs[r].res.status = 500
         /\ reqs[r].res.error \notin
              {"", "Form data missing", "Generated PDF is empty",
               "PDF generation failed"}
         /\ \A q \in Reqs :
              (Done(q) /\ reqs[q].thrownAt # "launch")
                => reqs[q].res.error # reqs[r].res.error
         /\ reqs[r].browser = 0
         /\ reqs[r].calls = <<"launch">>

C4_Witness ==
  \E r \in Reqs :
    /\ impl = "exportPdf" /\ reqs[r].thrownAt = "launch"
    /\ reqs[r].res.error = "Failed to launch browser"

EmptyPdf(r) == reqs[r].pdf \in {-1, 0}

\* C5 as stated: whenever page.pdf returned null or a zero-length result,
\* the answer is 500 {error: "Generated PDF is empty"}.
C5_EmptyPdfAlwaysReported ==
  \A r \in Reqs :
    (Done(r) /\ EmptyPdf(r))
      => /\ reqs[r].res.status = 500
         /\ reqs[r].res.error = "Generated PDF is empty"

\* C5 amended: when page.pdf returned null or a zero-length result the
\* answer is 500 and never a body with PDF headers; it is {error: "Generated
\* PDF is empty"} when browser.close() returned, and the generic
\* {error: "PDF generation failed", details} when browser.close() threw;
\* neither is the launch-failure error.
C5_EmptyPdfReportedUnlessCloseThrows ==
  \A r \in Reqs :
    /\ (Done(r) /\ EmptyPdf(r))
         => /\ reqs[r].res.status = 500
            /\ reqs[r].res.kind = "json"
            /\ reqs[r].res.bodyLen = -1
            /\ reqs[r].res.contentType # "application/pdf"
            /\ reqs[r].res.error \notin
                 {"Failed to launch browser", "Failed to launch Chromium"}
            /\ reqs[r].thrownAt \in {"", "close"}
            /\ reqs[r].thrownAt = ""
                 => /\ reqs[r].res.error = "Generated PDF is empty"
                    /\ ~reqs[r].res.details
            /\ reqs[r].thrownAt = "close"
                 => reqs[r].res.error = "PDF generation failed"
    /\ reqs[r].res.kind = "pdf" => reqs[r].res.bodyLen > 0

C5_Witness ==
  \E r \in Reqs :
    /\ Done(r) /\ reqs[r].pdf = 0 /\ reqs[r].thrownAt = ""
    /\ reqs[r].res.error = "Generated PDF is empty"

AdaLovelacePdf ==
  <<"A", "d", "a", "_", "L", "o", "v", "e", "l", "a", "c", "e",
    ".", "p", "d", "f">>

\* C6: a successful export carries Content-Type application/pdf, a
\* Content-Disposition with the derived file name and a Content-Length equal
\* to the length of the body sent; a 400 or 500 response carries none of
\* the three.
C6_PdfHeadersOnSuccessOnly ==
  \A r \in Reqs :
    /\ reqs[r].res.kind = "pdf"
         => /\ Done(r)
            /\ reqs[r].res.status = 200
            /\ reqs[r].res.contentType = "application/pdf"
            /\ reqs[r].res.disposition = FileNameOf(reqs[r].body.form.name).out
            /\ reqs[r].body.form.name = StrV(AdaLovelace)
                 => reqs[r].res.disposition = AdaLovelacePdf
            /\ reqs[r].res.bodyLen = reqs[r].pdf
            /\ reqs[r].res.contentLength = reqs[r].res.bodyLen
    /\ reqs[r].res.status \in {400, 500}
         => /\ reqs[r].res.contentType # "application/pdf"
            /\ reqs[r].res.disposition = <<>>
            /\ reqs[r].res.contentLength = -1

C6_Witness ==
  \E r \in Reqs :
    /\ Done(r) /\ reqs[r].res.kind = "pdf"
    /\ reqs[r].res.contentLength = reqs[r].pdf /\ reqs[r].pdf > 0

\* ------------------------------------------------------------------------
\* Properties of the file name derivation (specification SpecFileName)
\* ------------------------------------------------------------------------
\* ^[A-Za-z0-9_-]{1,40}\.pdf$
MatchesFileNamePattern(f) ==
  /\ Len(f) >= 1 + Len(DotPdf)
  /\ Len(f) <= StemCap + Len(DotPdf)
  /\ SubSeq(f, Len(f) - Len(DotPdf) + 1, Len(f)) = DotPdf
  /\ \A i \in 1..(Len(f) - Len(DotPdf)) : f[i] \in SafeChars

\* C7: for every form.name that is a string or absent or empty (then
\* "resume" is used), the file name matches ^[A-Za-z0-9_-]{1,40}\.pdf$: each
\* character outside the class is replaced by "_", the stem is the first 40
\* characters at most and never empty, the suffix is ".pdf"; "Ada Lovelace"
\* gives "Ada_Lovelace.pdf".
C7_FileNamePattern ==
  (fphase = "derived" /\ nameIn.t \in {"string", "undefined", "null"})
    => LET base == IF nameIn.t = "string" /\ nameIn.s # <<>>
                   THEN nameIn.s ELSE Resume
           f == fileName.out
           stemLen == Len(f) - Len(DotPdf)
       IN /\ ~fileName.threw
          /\ MatchesFileNamePattern(f)
          /\ stemLen = IF Len(base) < StemCap THEN Len(base) ELSE StemCap
          /\ \A i \in 1..stemLen :
               f[i] = IF base[i] \in SafeChars THEN base[i] ELSE "_"
          /\ nameIn = StrV(AdaLovelace) => f = AdaLovelacePdf

C7_Witness ==
  /\ fphase = "derived"
  /\ nameIn.t = "string"
  /\ Len(nameIn.s) > StemCap
  /\ nameIn.s[1] \notin SafeChars
  /\ Len(fileName.out) = StemCap + Len(DotPdf)

\* ------------------------------------------------------------------------
\* Properties of the education normalizer (specification SpecNorm)
\* ------------------------------------------------------------------------
Returned(n) == n.ran /\ ~n.threw
In0(i) == education0.items[i]
Out(i) == saved.out.items[i]

\* C8 as stated: every entry with eduType "Other" and a non-blank
\* eduTypeOther gets the trimmed eduTypeOther as its eduType, and no such
\* entry has eduType "Other" in the result, also when the trimmed override
\* is itself "Other".
C8_NoOtherRemains ==
  Returned(saved)
    => \A i \in 1..Len(education0.items) :
         IsOtherWithOverride(In0(i))
           => /\ Out(i).eduType = StrV(OtherTrimmed(In0(i)))
              /\ Out(i).eduType # StrV(Other)

\* C8 amended: every entry with eduType "Other" and a non-blank eduTypeOther
\* gets the trimmed eduTypeOther as its eduType; no such entry has eduType
\* "Other" in the result unless its trimmed override is itself the text
\* "Other", in which case its eduType is "Other" still.
C8_OverrideReplacesOther ==
  Returned(saved)
    => \A i \in 1..Len(education0.items) :
         IsOtherWithOverride(In0(i))
           => /\ Out(i).eduType.t = "string"
              /\ Out(i).eduType.s = Trim(In0(i).eduTypeOther.s)
              /\ Out(i).eduType.s # <<>>
              /\ Head(Out(i).eduType.s) \notin WhiteSpace
              /\ Out(i).eduType.s[Len(Out(i).eduType.s)] \notin WhiteSpace
              /\ (Out(i).eduType = StrV(Other))
                   <=> (Trim(In0(i).eduTypeOther.s) = Other)

C8_Witness ==
  /\ Returned(saved)
  /\ \E i \in 1..Len(education0.items) :
       /\ In0(i).eduType = StrV(Other)
       /\ In0(i).eduTypeOther = StrV(MScPadded)
       /\ Out(i).eduType = StrV(<<"M", "S", "c">>)

\* C9: normalizing twice gives what normalizing once gives, entry by entry:
\* the education exportPdf derives from a saved portfolio is the saved one.
C9_NormalizeIdempotent ==
  exported.ran
    => /\ ~exported.threw
       /\ Len(exported.out.items) = Len(saved.out.items)
       /\ \A i \in 1..Len(saved.out.items) :
            exported.out.items[i] = saved.out.items[i]

C9_Witness ==
  /\ nphase = "exported"
  /\ Returned(exported)
  /\ \E i \in 1..Len(education0.items) :
       IsOtherWithOverride(In0(i)) /\ Out(i) # In0(i)

\* C10: the result has the length and the order of the input; an entry that
\* is not "Other" with a non-blank eduTypeOther is returned unchanged, a
\* rewritten entry differs from its original in eduType only, and the input
\* entries are not mutated.
C10_NormalizeFrame ==
  /\ education = education0
  /\ Returned(saved)
       => /\ saved.out.t = "array"
          /\ Len(saved.out.items) = Len(education0.items)
          /\ \A i \in 1..Len(education0.items) :
               /\ ~IsOtherWithOverride(In0(i)) => Out(i) = In0(i)
               /\ Out(i).eduTypeOther = In0(i).eduTypeOther
               /\ Out(i).institute = In0(i).institute

C10_Witness ==
  /\ Returned(saved)
  /\ Len(education0.items) = 2
  /\ IsOtherWithOverride(In0(1)) /\ Out(1).eduType # In0(1).eduType
  /\ ~IsOtherWithOverride(In0(2)) /\ Out(2) = In0(2)
  /\ In0(1).institute # In0(2).institute

\* C11: normalizeEducationArray never throws: for an absent or null
\* education, one that is no sequence, a sequence with null or non-object
\* entries, or entries whose eduTypeOther is no string, it returns and
\* passes what it cannot normalize through as it is.
C11_NormalizeNeverThrows ==
  saved.ran
    => /\ ~saved.threw
       /\ Len(saved.out.items) = Len(education0.items)
       /\ \A i \in 1..Len(education0.items) :
            ~IsOtherWithOverride(In0(i)) => Out(i) = In0(i)

\* ------------------------------------------------------------------------
\* Properties of the assembled document (specification SpecHtml)
\* ------------------------------------------------------------------------
Assembled == markup.phase = "done" /\ markup.rq.pc = "launch"
FormIn == markup.rq.body.form
Sections == markup.rq.html.sections
SectionsOf(kind) == SelectSeq(Sections, LAMBDA sec : sec.kind = kind)
HasSection(kind) == SectionsOf(kind) # <<>>

\* What C12 asks the document to show for a form's skills.
SkillsToShow(form) ==
  IF form.skills.t = "string"
  THEN LET pieces == SplitComma(form.skills.s)
       IN SelectSeq([k \in 1..Len(pieces) |-> Trim(pieces[k])],
                    LAMBDA piece : piece # <<>>)
  ELSE IF form.skills.t = "array"
  THEN LET kept == SelectSeq(form.skills.items,
                             LAMBDA e : e.t = "string" /\ Trim(e.s) # <<>>)
       IN [k \in 1..Len(kept) |-> kept[k].s]
  ELSE <<>>

\* C12: the skills shown are the comma-separated pieces of a skills string,
\* trimmed and without empty pieces, or the non-blank entries of a skills
\* sequence, or none; they are joined with ", " and the SKILLS section is
\* omitted exactly when there are none.
C12_SkillsNormalized ==
  Assembled
    => LET shown == SkillsToShow(FormIn)
       IN IF shown = <<>>
          THEN ~HasSection("skills")
          ELSE /\ Len(SectionsOf("skills")) = 1
               /\ SectionsOf("skills")[1].items = shown
               /\ SectionsOf("skills")[1].text = JoinWith(shown, <<",", " ">>)

\* C13: buildResumeHtml never emits the EXPERIENCE, PROJECTS, CERTIFICATES,
\* SKILLS or ADDITIONAL INFORMATION heading without at least one entry or
\* block under it.
C13_NoHeadingWithoutContent ==
  Assembled /\ impl = "exportPdf"
    => \A k \in 1..Len(Sections) :
         Sections[k].kind \in {"experience", "projects", "certificates",
                               "skills", "additional"}
           => Sections[k].items # <<>>

IsBlank(v) == ~(v.t = "string" /\ Trim(v.s) # <<>>)
AllFourBlank(e) ==
  IsBlank(e.role) /\ IsBlank(e.company) /\ IsBlank(e.duration) /\ IsBlank(e.activities)

\* C14: when every experience entry has role, company, duration and
\* activities blank there is no EXPERIENCE heading; an entry with one of
\* the four non-blank brings the heading and is rendered under it.
C14_ExperienceShownIffNonBlank ==
  Assembled
    => LET entries == FormIn.experience.items
       IN /\ (\A k \in 1..Len(entries) : AllFourBlank(entries[k]))
               => ~HasSection("experience")
          /\ \A k \in 1..Len(entries) :
               ~AllFourBlank(entries[k])
                 => /\ HasSection("experience")
                    /\ \E j \in 1..Len(SectionsOf("experience")[1].items) :
                         SectionsOf("experience")[1].items[j] = entries[k]

EducationEmpty(form) ==
  form.education.t = "undefined" \/ form.education.items = <<>>

\* C15: the document always has the EDUCATION heading; with an empty or
\* absent education sequence the heading is followed by the placeholder
\* "No education details", and assembly does not fail.
C15_EducationNeverSuppressed ==
  markup.phase = "done"
    => /\ EducationEmpty(FormIn) => Assembled
       /\ Assembled
            => /\ HasSection("education")
               /\ EducationEmpty(FormIn)
                    => SectionsOf("education")[1].note = "No education details"

RankOf(kind) ==
  CASE kind = "header" -> 1
    [] kind = "summary" -> 2
    [] kind = "experience" -> 3
    [] kind = "projects" -> 4
    [] kind = "education" -> 5
    [] kind = "skills" -> 6
    [] kind = "certificates" -> 7
    [] kind = "additional" -> 8

\* C16: in every implementation of the export handler the emitted sections
\* come in the order Header, Summary, Experience, Projects, Education,
\* Skills, Certificates, Additional Information.
C16_SectionOrder ==
  Assembled
    => \A i, j \in 1..Len(Sections) :
         i < j => RankOf(Sections[i].kind) < RankOf(Sections[j].kind)

GenIn == markup.rq.body.gensummary
GenText == IF GenIn.t = "string" THEN GenIn.s ELSE <<>>
StarsBefore(s, k) == Cardinality({j \in 1..(k - 1) : s[j] = "*"})
\* c is s with the stars taken out and the rest left in place
IsStarless(c, s) ==
  /\ Len(c) = Len(s) - StarsBefore(s, Len(s) + 1)
  /\ \A k \in 1..Len(s) : s[k] # "*" => c[k - StarsBefore(s, k)] = s[k]
SummaryText ==
  IF HasSection("summary") THEN SectionsOf("summary")[1].text ELSE <<>>

\* C17: the cleaned summary is gensummary without its "*" characters, the
\* other characters unchanged and in order (the empty string when
\* gensummary is absent), and the summary text of the document is exactly
\* this string, free of "*".
C17_SummaryCleaned ==
  Assembled
    => /\ IsStarless(markup.rq.html.summary, GenText)
       /\ SummaryText = markup.rq.html.summary
       /\ \A k \in 1..Len(SummaryText) : SummaryText[k] # "*"

C17_Witness ==
  /\ Assembled
  /\ GenIn = StrV(<<"*", "a", "*">>)
  /\ HasSection("summary")
  /\ SummaryText = <<"a">>

\* ------------------------------------------------------------------------
\* Concurrent export requests (specification Spec)
\* ------------------------------------------------------------------------
InFlight == {r \in Reqs : reqs[r].pc \notin {"idle", "done"}}
Launches(r) ==
  Cardinality({i \in 1..Len(reqs[r].calls) : reqs[r].calls[i] = "launch"})

\* C18: under any interleaving each request launches at most one browser
\* and works only on the browser it launched, no two requests hold the same
\* browser, and the open browsers never outnumber the requests in flight.
C18_BrowsersRequestScoped ==
  /\ \A r \in Reqs :
       /\ Launches(r) <= 1
       /\ reqs[r].browser # 0 => Launches(r) = 1
       /\ \A q \in Reqs :
            (q # r /\ reqs[r].browser # 0) => reqs[q].browser # reqs[r].browser
  /\ Cardinality(openBrowsers) <= Cardinality(InFlight)

\* ------------------------------------------------------------------------
\* Properties of the portfolio routes (specification SpecAuth)
\* ------------------------------------------------------------------------
HasValidToken ==
  LET token == aiToken(auth.authorization)
  IN Truthy(token) /\ token.s \in SignedTokens
Routed == auth.phase \in {"handler", "answered"}

\* C19: savePortfolio and getPortfolios run only after authMiddleware
\* verified the bearer token and attached the decoded user; a request with
\* no token or a token that fails verification is answered 401 and never
\* reaches the handler; a request with a valid token reaches it.
C19_PortfolioProtected ==
  Routed
    => /\ auth.handlerCalled => auth.user /\ HasValidToken
       /\ ~HasValidToken => (auth.status = 401 /\ ~auth.handlerCalled)
       /\ HasValidToken => auth.handlerCalled

\* ------------------------------------------------------------------------
\* Properties of generateWithRetry (specification SpecRetry)
\* ------------------------------------------------------------------------
Finished == retry.phase \in {"completed", "threw"}

EduIn == FormIn.education.items
\* the eduType to show for an entry as the client sent it
EduTypeToShow(e) ==
  IF /\ e.eduType = StrV(<<"O", "t", "h", "e", "r">>)
     /\ e.eduTypeOther.t = "string"
     /\ Trim(e.eduTypeOther.s) # <<>>
  THEN Trim(e.eduTypeOther.s)
  ELSE IF e.eduType.t = "string" THEN e.eduType.s ELSE <<>>

\* C21: in an export request the education is normalized exactly once and
\* before the markup is assembled: the form the markup is assembled from
\* holds the normalized education, and every education row shows the
\* normalized eduType (the trimmed override of an "Other" entry, else the
\* eduType itself), never eduTypeOther otherwise.
C21_NormalizedOnceBeforeAssembly ==
  Assembled
    => /\ markup.rq.normalized = 1
       /\ Len(markup.rq.form.education.items) = Len(EduIn)
       /\ \A k \in 1..Len(EduIn) :
            markup.rq.form.education.items[k].eduType.s = EduTypeToShow(EduIn[k])
       /\ EduIn # <<>>
            => /\ Len(SectionsOf("education")[1].items) = Len(EduIn)
               /\ \A k \in 1..Len(EduIn) :
                    SectionsOf("education")[1].items[k].eduType
                      = EduTypeToShow(EduIn[k])

C21_Witness ==
  /\ Assembled
  /\ Len(EduIn) = 2
  /\ EduIn[1].eduType = StrV(<<"O", "t", "h", "e", "r">>)
  /\ EduIn[1].eduTypeOther = StrV(<<" ", "M", "S", "c", " ">>)
  /\ SectionsOf("education")[1].items[1].eduType = <<"M", "S", "c">>
  /\ markup.rq.normalized = 1

\* ------------------------------------------------------------------------
\* The header (specification SpecHtml)
\* ------------------------------------------------------------------------
ContactLine == SectionsOf("header")[1].items
ShowsSomething(seg) == Trim(seg.text) # <<>>
MissingIn(form, field) ==
  ~(form[field].t = "string" /\ Trim(form[field].s) # <<>>)

\* C22: in the contact line of the header a separator stands only in front
\* of a segment that is present and follows a segment that is shown; a
\* missing or blank field leaves no dangling "," or "|" and no text such as
\* "undefined".
C22_NoDanglingSeparator ==
  Assembled
    => \A k \in 1..Len(ContactLine) :
         /\ ContactLine[k].sep # ""
              => /\ ShowsSomething(ContactLine[k])
                 /\ \E j \in 1..(k - 1) : ShowsSomething(ContactLine[j])
         /\ MissingIn(FormIn, ContactLine[k].field)
              => ~ShowsSomething(ContactLine[k])

\* ------------------------------------------------------------------------
\* Links and projects (specification SpecHtml)
\* ------------------------------------------------------------------------
ProjectRows == IF HasSection("projects") THEN SectionsOf("projects")[1].items ELSE <<>>
CertRows ==
  IF HasSection("certificates") THEN SectionsOf("certificates")[1].items ELSE <<>>
\* the href the spec asks for a link value
HrefFor(v) ==
  IF Len(v) >= 4 /\ SubSeq(v, 1, 4) = <<"h", "t", "t", "p">> THEN v
  ELSE <<"h", "t", "t", "p", "s", ":", "/", "/">> \o v

\* C23: the href of every rendered project link and certificate credential
\* is the value itself when it starts with "http" and "https://" followed
\* by the value otherwise; no rendered href lacks a scheme.
C23_HrefHasScheme ==
  Assembled
    => /\ \A k \in 1..Len(ProjectRows) :
            ProjectRows[k].link
              => ProjectRows[k].href = HrefFor(ProjectRows[k].src.link.s)
       /\ \A k \in 1..Len(CertRows) :
            CertRows[k].credential
              => CertRows[k].href = HrefFor(CertRows[k].src.credential.s)

\* ------------------------------------------------------------------------
\* Additional information (specification SpecHtml)
\* ------------------------------------------------------------------------
Blocks == IF HasSection("additional") THEN SectionsOf("additional")[1].items ELSE <<>>
HasBlock(block) == \E k \in 1..Len(Blocks) : Blocks[k].block = block
BlockOf(block) == Blocks[CHOOSE k \in 1..Len(Blocks) : Blocks[k].block = block]
SomeLanguageNamed(form) ==
  \E k \in 1..Len(form.languages.items) : ~IsBlank(form.languages.items[k].language)

\* C24: the ADDITIONAL INFORMATION section is omitted exactly when no
\* language entry has a non-blank language and nationality and
\* availabilityType are blank; each of the three blocks is emitted exactly
\* when its own data is non-blank, and the languages block lists only
\* entries with a non-blank language.
C24_AdditionalBlocks ==
  Assembled
    => /\ HasSection("additional")
            <=> \/ SomeLanguageNamed(FormIn)
                \/ ~IsBlank(FormIn.nationality)
                \/ ~IsBlank(FormIn.availabilityType)
       /\ HasBlock("languages") <=> SomeLanguageNamed(FormIn)
       /\ HasBlock("nationality") <=> ~IsBlank(FormIn.nationality)
       /\ HasBlock("availability") <=> ~IsBlank(FormIn.availabilityType)
       /\ HasBlock("languages")
            => \A k \in 1..Len(BlockOf("languages").entries) :
                 ~IsBlank(BlockOf("languages").entries[k].language)

\* C25: with a non-blank availabilityType the Availability text is
\* "Notice Period for {noticePeriod}" for "Notice Period", "Available from
\* {availableFromDate}" for "Available From" (the period or date being
\* given), and the availabilityType verbatim for any other value.
C25_AvailabilityText ==
  (Assembled /\ ~IsBlank(FormIn.availabilityType))
    => /\ HasBlock("availability")
       /\ LET shown == BlockOf("availability")
              type == FormIn.availabilityType.s
          IN /\ (type = <<"N", "o", "t", "i", "c", "e", " ", "P", "e", "r", "i", "o", "d">>
                   /\ ~IsBlank(FormIn.noticePeriod))
                  => /\ shown.lead = "Notice Period for "
                     /\ shown.text = FormIn.noticePeriod.s
             /\ (type = <<"A", "v", "a", "i", "l", "a", "b", "l", "e", " ", "F", "r", "o", "m">>
                   /\ ~IsBlank(FormIn.availableFromDate))
                  => /\ shown.lead = "Available from "
                     /\ shown.text = FormIn.availableFromDate.s
             /\ type \notin
                  {<<"N", "o", "t", "i", "c", "e", " ", "P", "e", "r", "i", "o", "d">>,
                   <<"A", "v", "a", "i", "l", "a", "b", "l", "e", " ", "F", "r", "o", "m">>}
                  => (shown.lead = "" /\ shown.text = type)

ProjectPresent(p) ==
  \/ ~IsBlank(p.name) \/ ~IsBlank(p.description) \/ ~IsBlank(p.link)
  \/ ~IsBlank(p.technologies)
  \/ \E k \in 1..Len(p.keyPoints.items) : ~IsBlank(p.keyPoints.items[k])
KeyPointsToShow(p) ==
  LET kept == SelectSeq(p.keyPoints.items, LAMBDA k : ~IsBlank(k))
  IN [k \in 1..Len(kept) |-> kept[k].s]

\* C26: every project that is present (name, description, link,
\* technologies or a non-blank key point) is rendered; its bulleted list is
\* emitted exactly when a key point is non-blank and holds the non-blank key
\* points in order; its "Tech Used" line is emitted exactly when
\* technologies is non-blank; missing keyPoints or technologies raise no
\* error.
C26_ProjectsRendered ==
  markup.phase = "done"
    => /\ Assembled
       /\ \A k \in 1..Len(FormIn.projects.items) :
            ProjectPresent(FormIn.projects.items[k])
              => \E j \in 1..Len(ProjectRows) :
                   ProjectRows[j].src = FormIn.projects.items[k]
       /\ \A j \in 1..Len(ProjectRows) :
            /\ ProjectRows[j].list <=> KeyPointsToShow(ProjectRows[j].src) # <<>>
            /\ ProjectRows[j].list
                 => ProjectRows[j].bullets = KeyPointsToShow(ProjectRows[j].src)
            /\ ProjectRows[j].tech <=> ~IsBlank(ProjectRows[j].src.technologies)


\* C27: every request is answered at most once: no step leaves a request
\* with more than one response sent, and once a response has been sent (from
\* the missing-form 400, the launch catch, the empty check, the outer catch
\* or the PDF itself) no later step changes its status, headers or body.
C27_AtMostOneResponse ==
  [][\A r \in Reqs :
       /\ reqs'[r].res.sent <= 1
       /\ reqs[r].res.sent = 1 => reqs'[r].res = reqs[r].res]_vars

\* A request answered by the empty check, and another request that took a
\* step after it.
C27_Witness ==
  \E r, q \in Reqs :
    /\ r # q
    /\ Done(r) /\ reqs[r].res.sent = 1
    /\ reqs[r].res.error = "Generated PDF is empty"
    /\ reqs[r].calls = <<"launch", "newPage", "setContent", "pdf", "close">>
    /\ reqs[q].pc # "idle"


\* C28: with engine calls that all settle, every request that was received is
\* eventually answered exactly once (again and again no received request is
\* without its answer, and an answer stays); a request that waits for an
\* engine call is unanswered and is moved by nothing but the settling of
\* that call (there is no timeout).
Awaiting(r) ==
  reqs[r].pc \in {"launch", "newPage", "setContent", "pdf", "close"}

C28_EventuallyAnswered ==
  /\ []<>(\A r \in Reqs :
            reqs[r].pc = "idle" \/ (Done(r) /\ reqs[r].res.sent = 1))
  /\ [](\A r \in Reqs : Awaiting(r) => reqs[r].res.sent = 0)
  /\ [][\A r \in Reqs :
         Awaiting(r) /\ reqs'[r] # reqs[r] => EngineCallSettles(r)]_vars

\* A request answered with the PDF after all five engine calls while another
\* request still waits for its engine.
C28_Witness ==
  \E r, q \in Reqs :
    /\ Done(r) /\ reqs[r].res.kind = "pdf" /\ Len(reqs[r].calls) = 5
    /\ Awaiting(q) /\ reqs[q].res.sent = 0


\* ------------------------------------------------------------------------
\* Properties of /auth/register (specification SpecRegister)
\* ------------------------------------------------------------------------
UsersWith(email) ==
  {k \in 1..Len(accounts.users) : accounts.users[k].email = email}

\* C29: the users collection holds at most one user per email, whatever the
\* interleaving of the registrations; a registration that found nothing for
\* its email and then inserted is the only one stored for that email.
C29_OneUserPerEmail ==
  \A email \in {AdaMail, BobMail} : Cardinality(UsersWith(email)) <= 1


\* ------------------------------------------------------------------------
\* Properties of the portfolio store (specification SpecPortfolio)
\* ------------------------------------------------------------------------
\* The documents among the first n stored that came from a save of user u.
StoredBy(u, n) ==
  {k \in 1..n : portfolio.saves[portfolio.docs[k].src].by = u}

ReturnedTo(u) ==
  {k \in 1..Len(portfolio.docs) :
     \E j \in 1..Len(portfolio.got[u].out) :
       portfolio.got[u].out[j] = portfolio.docs[k]}

\* C30: what getPortfolios returned to user u is exactly the documents that
\* saves authenticated as u had stored by then, none of another user; every
\* stored document carries the id of the user who saved it, the time of its
\* save and the normalized education, whatever userId or createdAt the body
\* brought.
C30_PortfolioIsolation ==
  /\ \A u \in UserIds :
       portfolio.got[u].ran =>
         /\ ReturnedTo(u) = StoredBy(u, portfolio.got[u].seen)
         /\ Len(portfolio.got[u].out) = Cardinality(ReturnedTo(u))
  /\ \A k \in 1..Len(portfolio.docs) :
       LET d == portfolio.docs[k]
           sv == portfolio.saves[d.src]
       IN /\ d.data.userId = toHexString(sv.by)
          /\ d.data.createdAt >= 1
          /\ d.data.createdAt # sv.body.createdAt
          /\ d.data.education = normalizeEducationArray(sv.body.education).out

\* User 1 stored a portfolio whose body named user 2 and a createdAt of its
\* own, user 2 stored one too, and each fetched their own single document.
C30_Witness ==
  /\ Len(portfolio.docs) = 2
  /\ \E a, b \in Saves :
       /\ portfolio.saves[a].by = 1 /\ portfolio.saves[a].status = 200
       /\ portfolio.saves[a].body.userId = toHexString(2)
       /\ portfolio.saves[a].body.createdAt = 0
       /\ portfolio.saves[b].by = 2 /\ portfolio.saves[b].status = 200
  /\ \A u \in UserIds :
       portfolio.got[u].ran /\ portfolio.got[u].seen = 2
         /\ Len(portfolio.got[u].out) = 1

====
